---- MODULE Spec2Model ----
(***************************************************************************)
(* A model of the expense tracker's transaction store, categorization      *)
(* engine, rule store and import reconciliation                            *)
(* (src/expense_tracker/__init__.py).                                      *)
(*                                                                         *)
(* Texts (descriptions, vendors, patterns) are sequences of words; a word  *)
(* is a string without white space or punctuation, so str.split() is the   *)
(* sequence itself and " ".join() is the sequence again.  Category names   *)
(* are single strings.  Amounts are integers (cents), dates are small      *)
(* integers, timestamps are seconds.                                       *)
(***************************************************************************)
EXTENDS Integers, Sequences, FiniteSets, TLC

(* ------------------------------------------------------------------ *)
(* Bounds of the model                                                 *)
(* ------------------------------------------------------------------ *)
\* requests (POST) the model starts, over all handlers
MaxRequests == 2
\* steps of the clock
MaxTicks == 1
\* rows of an uploaded file
MaxRows == 2
\* files uploaded for preview
MaxPreviews == 1
\* days the clock jumps
MaxDays == 1

(* ------------------------------------------------------------------ *)
(* Program constants                                                   *)
(* ------------------------------------------------------------------ *)
\* cleanup_expired_import_staging(db, max_age_hours=24), in seconds
StagingTTL == 86400

\* The keyword and category lists hold the members that the words of this model can meet
\* (metro, 12, gym, store, transfer and the category names below); the code matches a keyword
\* as a substring of the normalized description, which on these words is word membership.
DEFAULT_CATEGORIES == {"Groceries", "Personal", "Transfers", "Credit Card Payments"}
TRANSFER_KEYWORDS == {"transfer", "refund", "return", "points"}
PAYMENT_KEYWORDS == {"payment", "autopay"}
PERSONAL_KEYWORDS == {"salon", "spa", "barber", "gym", "hobby", "massage"}
GroceryKeywords == {"metro", "iga", "provigo", "loblaws"}
LEARNING_STOPLIST == {<<"shop">>, <<"store">>, <<"payment">>, <<"merci">>, <<"service">>,
                      <<"purchase">>, <<"debit">>, <<"credit">>, <<"transaction">>, <<"interest">>}
VENDOR_NOISE_TOKENS == {"pos", "purchase", "debit", "credit", "auth", "interac",
                        "transaction", "card", "payment"}

(* ------------------------------------------------------------------ *)
(* Text normalisation                                                  *)
(* ------------------------------------------------------------------ *)
\* str.lower() on one word
Lower(w) ==
    CASE w = "Metro" -> "metro"
      [] w = "METRO" -> "metro"
      [] w = "Gym" -> "gym"
      [] w = "Store" -> "store"
      [] w = "Transfer" -> "transfer"
      [] OTHER -> w

\* whether a lower-case word consists of letters*, digits+, [letters digits -]*
IsRefToken(w) == w \in {"12", "0042", "a1"}

RECURSIVE MapLower(_)
MapLower(t) == IF t = <<>> THEN <<>> ELSE <<Lower(Head(t))>> \o MapLower(Tail(t))

normalize_description(t) == MapLower(t)

normalize_text(t) == normalize_description(t)

\* value.strip() on a category name
Strip(value) ==
    CASE value = " Misc" -> "Misc"
      [] OTHER -> value

\* normalize_description applied to a category name
normalize_name(n) ==
    CASE n = "Groceries" -> "groceries"
      [] n = " Misc" -> "misc"
      [] n = "Personal" -> "personal"
      [] n = "PERSONAL" -> "personal"
      [] n = "Transfers" -> "transfers"
      [] n = "Credit Card Payments" -> "credit card payments"
      [] n = "Misc" -> "misc"
      [] OTHER -> n

RECURSIVE DropNoise(_)
DropNoise(t) ==
    IF t = <<>> THEN <<>>
    ELSE IF Head(t) \in VENDOR_NOISE_TOKENS THEN DropNoise(Tail(t))
    ELSE <<Head(t)>> \o DropNoise(Tail(t))

RECURSIVE PopRefTokens(_)
PopRefTokens(t) ==
    IF t # <<>> /\ IsRefToken(t[Len(t)]) THEN PopRefTokens(SubSeq(t, 1, Len(t) - 1)) ELSE t

Take(t, n) == SubSeq(t, 1, IF Len(t) < n THEN Len(t) ELSE n)

derive_vendor(description) ==
    LET tokens == PopRefTokens(DropNoise(normalize_text(description)))
    IN  Take(tokens, 4)

RECURSIVE FirstLearnable(_, _)
FirstLearnable(words, n) ==
    IF n = 0 THEN <<>>
    ELSE IF Take(words, n) \notin LEARNING_STOPLIST THEN Take(words, n)
    ELSE FirstLearnable(words, n - 1)

extract_pattern(value, max_words) ==
    LET words == normalize_text(value)
    IN  IF words = <<>> THEN <<>>
        ELSE FirstLearnable(words, IF Len(words) < max_words THEN Len(words) ELSE max_words)

\* any(keyword in normalized_desc for keyword in keywords), keywords being single words
HasKeyword(normalized, keywords) == \E i \in 1..Len(normalized) : normalized[i] \in keywords

\* len() of one lower-case word
WordLen(w) ==
    CASE w = "metro" -> 5
      [] w = "gym" -> 3
      [] w = "store" -> 5
      [] w = "transfer" -> 8
      [] OTHER -> 2

\* len(" ".join(pattern))
RECURSIVE PatternLen(_)
PatternLen(p) ==
    IF p = <<>> THEN 0
    ELSE IF Len(p) = 1 THEN WordLen(p[1])
    ELSE WordLen(Head(p)) + 1 + PatternLen(Tail(p))

\* pattern LIKE stored || '%'
IsPrefix(stored, pattern) ==
    /\ Len(stored) <= Len(pattern)
    /\ SubSeq(pattern, 1, Len(stored)) = stored

(* ------------------------------------------------------------------ *)
(* Category resolution                                                 *)
(* ------------------------------------------------------------------ *)
normalize_paid_by(value) ==
    CASE value \in {"DK", "dk", "denys", "d"} -> "DK"
      [] value \in {"YZ", "yz", "yuliya", "wife", "y"} -> "YZ"
      [] OTHER -> ""

Found(choice, available) == {c \in available : normalize_name(c) = normalize_name(choice)}

pick_existing_category(preferred, available, fallback) ==
    IF preferred = "" /\ fallback = "" THEN ""
    ELSE IF available = {} THEN (IF preferred # "" THEN preferred ELSE fallback)
    ELSE IF preferred # "" /\ Found(preferred, available) # {}
         THEN CHOOSE c \in Found(preferred, available) : TRUE
    ELSE IF fallback # "" /\ Found(fallback, available) # {}
         THEN CHOOSE c \in Found(fallback, available) : TRUE
    ELSE ""

LEGACY_CATEGORY_MAPPING(normalized) ==
    CASE normalized = "food" -> "Groceries"
      [] normalized = "transfer" -> "Transfers"
      [] OTHER -> ""

map_category_name(raw_category) ==
    LET cleaned == Strip(raw_category)
        normalized == normalize_name(cleaned)
    IN  IF cleaned = "" THEN ""
        ELSE IF cleaned \in DEFAULT_CATEGORIES THEN cleaned
        ELSE IF LEGACY_CATEGORY_MAPPING(normalized) # "" THEN LEGACY_CATEGORY_MAPPING(normalized)
        ELSE cleaned

\* available = {} stands for both None and the empty list (the code tests `not available_categories`)
infer_category(description, raw_category, available) ==
    LET mapped == map_category_name(raw_category)
        normalized_desc == normalize_description(description)
    IN  IF mapped # ""
        THEN (IF pick_existing_category(mapped, available, "") # ""
              THEN pick_existing_category(mapped, available, "") ELSE mapped)
        ELSE IF HasKeyword(normalized_desc, PAYMENT_KEYWORDS)
        THEN pick_existing_category("Credit Card Payments", available, "Transfers")
        ELSE IF HasKeyword(normalized_desc, PERSONAL_KEYWORDS)
        THEN pick_existing_category("Personal", available, "")
        ELSE IF HasKeyword(normalized_desc, GroceryKeywords)
        THEN pick_existing_category("Groceries", available, "")
        ELSE IF HasKeyword(normalized_desc, TRANSFER_KEYWORDS)
        THEN pick_existing_category("Transfers", available, "")
        ELSE ""

is_transfer_transaction(description, category_name) ==
    LET normalized_category == normalize_name(category_name)
    IN  IF normalized_category \in {"transfers", "credit card payments"} THEN TRUE
        ELSE IF normalized_category # "" THEN FALSE
        ELSE HasKeyword(normalize_description(description), TRANSFER_KEYWORDS \cup PAYMENT_KEYWORDS)

(* ------------------------------------------------------------------ *)
(* Categorization engine and rule store                                *)
(* A rule is [id, user, key_type, pattern, category, enabled, hits,    *)
(* source]; priority is 0 for every rule the program writes.           *)
(* ------------------------------------------------------------------ *)
EnabledRules(rules, user_id, key_type) ==
    {r \in rules : r.user = user_id /\ r.key_type = key_type /\ r.enabled = 1}

\* ORDER BY hits ASC: the least used rule first
BestExactLeastUsed(cands) ==
    {r \in cands : \A o \in cands : o.hits > r.hits \/ (o.hits = r.hits /\ o.id <= r.id)}

\* ORDER BY priority ASC, hits DESC, id DESC LIMIT 1
BestExact(cands) ==
    {r \in cands : \A o \in cands : o.hits < r.hits \/ (o.hits = r.hits /\ o.id <= r.id)}

\* ORDER BY LENGTH(pattern) DESC, priority ASC, hits DESC LIMIT 1 (rows that tie come in any order)
BestPrefix(cands) ==
    {r \in cands : \A o \in cands :
        \/ PatternLen(o.pattern) < PatternLen(r.pattern)
        \/ (PatternLen(o.pattern) = PatternLen(r.pattern) /\ o.hits <= r.hits)}

\* the rows the two SELECTs of resolve_learned_category may return
LearnedCandidates(rules, user_id, key_type, pattern) ==
    LET exact == {r \in EnabledRules(rules, user_id, key_type) : r.pattern = pattern}
        prefix == {r \in EnabledRules(rules, user_id, key_type) : IsPrefix(r.pattern, pattern)}
    IN  IF exact # {} THEN BestExact(exact) ELSE BestPrefix(prefix)

\* outcomes [category, hit]: the category returned and the id of the rule whose hits are incremented (0: none)
resolve_learned_category(rules, user_id, key_type, pattern, available) ==
    IF pattern = <<>> \/ LearnedCandidates(rules, user_id, key_type, pattern) = {}
    THEN {[category |-> "", hit |-> 0]}
    ELSE {IF pick_existing_category(r.category, available, "") = ""
          THEN [category |-> "", hit |-> 0]
          ELSE [category |-> pick_existing_category(r.category, available, ""), hit |-> r.id]
          : r \in LearnedCandidates(rules, user_id, key_type, pattern)}

\* UPDATE category_rules SET hits = hits + 1 WHERE id = ?
IncrementHits(rules, rule_id) ==
    {IF r.id = rule_id THEN [r EXCEPT !.hits = @ + 1] ELSE r : r \in rules}

\* a categorization that tries the keyword heuristics before the learned rules
categorize_keywords_first(rules, user_id, description, vendor, raw_category, available) ==
    IF is_transfer_transaction(description, raw_category)
    THEN {[category |-> pick_existing_category("Credit Card Payments", available, "Transfers"),
           confidence |-> 100, source |-> "transfer", hit |-> 0]}
    ELSE IF infer_category(vendor, raw_category, available) # ""
    THEN {[category |-> infer_category(vendor, raw_category, available),
           confidence |-> 75, source |-> "keyword_vendor", hit |-> 0]}
    ELSE IF infer_category(description, raw_category, available) # ""
    THEN {[category |-> infer_category(description, raw_category, available),
           confidence |-> 65, source |-> "keyword_description", hit |-> 0]}
    ELSE {[category |-> "", confidence |-> 25, source |-> "unknown", hit |-> 0]}

\* outcomes [category, confidence, source, hit]
categorize_transaction(rules, user_id, description, vendor, raw_category, available) ==
    IF is_transfer_transaction(description, raw_category)
    THEN {[category |-> pick_existing_category("Credit Card Payments", available, "Transfers"),
           confidence |-> 100, source |-> "transfer", hit |-> 0]}
    ELSE
      LET vendor_pattern == extract_pattern(IF vendor # <<>> THEN vendor ELSE derive_vendor(description), 4)
          desc_pattern == extract_pattern(description, 3)
          byVendor == resolve_learned_category(rules, user_id, "vendor", vendor_pattern, available)
          byDesc == resolve_learned_category(rules, user_id, "description", desc_pattern, available)
          keyword_vendor == infer_category(vendor, raw_category, available)
          keyword_description == infer_category(description, raw_category, available)
          rest == IF keyword_vendor # ""
                  THEN [category |-> keyword_vendor, confidence |-> 75, source |-> "keyword_vendor", hit |-> 0]
                  ELSE IF keyword_description # ""
                  THEN [category |-> keyword_description, confidence |-> 65, source |-> "keyword_description", hit |-> 0]
                  ELSE [category |-> "", confidence |-> 25, source |-> "unknown", hit |-> 0]
      IN  {[category |-> v.category, confidence |-> 95, source |-> "learned_vendor", hit |-> v.hit]
             : v \in {x \in byVendor : x.category # ""}}
          \cup
          (IF \E v \in byVendor : v.category = ""
           THEN {[category |-> d.category, confidence |-> 90, source |-> "learned_description", hit |-> d.hit]
                   : d \in {x \in byDesc : x.category # ""}}
                \cup (IF \E d \in byDesc : d.category = "" THEN {rest} ELSE {})
           ELSE {})

LEARNING_MIN_LEN == 3

\* learn_rule up to its SELECT of the existing rule: the key it would write, or ok = FALSE
LearnKey(categories, description, vendor, category_id) ==
    LET vendor_pattern == extract_pattern(vendor, 4)
        description_pattern == extract_pattern(description, 3)
        key_type == IF vendor_pattern # <<>> THEN "vendor" ELSE "description"
        pattern == IF vendor_pattern # <<>> THEN vendor_pattern ELSE description_pattern
    IN  IF category_id \notin categories THEN [ok |-> FALSE, key_type |-> "", pattern |-> <<>>]
        ELSE IF is_transfer_transaction(description, category_id)
        THEN [ok |-> FALSE, key_type |-> "", pattern |-> <<>>]
        ELSE IF pattern = <<>> \/ pattern \in LEARNING_STOPLIST \/ PatternLen(pattern) < LEARNING_MIN_LEN
        THEN [ok |-> FALSE, key_type |-> "", pattern |-> <<>>]
        ELSE [ok |-> TRUE, key_type |-> key_type, pattern |-> pattern]

\* SELECT id FROM category_rules WHERE user_id = ? AND key_type = ? AND pattern = ?  (.fetchone(): any such row; 0: none)
ExistingRuleIds(rules, user_id, key_type, pattern) ==
    LET ids == {r.id : r \in {x \in rules : x.user = user_id /\ x.key_type = key_type /\ x.pattern = pattern}}
    IN  IF ids = {} THEN {0} ELSE ids

\* an upsert that resets the hit counter of the rule it updates
LearnWriteResetHits(rules, next_id, user_id, key, category, source, existing) ==
    IF existing # 0
    THEN {IF r.id = existing
          THEN [r EXCEPT !.category = category, !.source = source, !.enabled = 1, !.hits = 0] ELSE r
            : r \in rules}
    ELSE rules \cup {[id |-> next_id, user |-> user_id, key_type |-> key.key_type, pattern |-> key.pattern,
                      category |-> category, enabled |-> 1, hits |-> 0, source |-> source]}

\* the UPDATE ... WHERE id = existing, or the INSERT, of learn_rule
LearnWriteRules(rules, next_id, user_id, key, category, source, existing) ==
    IF existing # 0
    THEN {IF r.id = existing THEN [r EXCEPT !.category = category, !.source = source, !.enabled = 1] ELSE r
            : r \in rules}
    ELSE rules \cup {[id |-> next_id, user |-> user_id, key_type |-> key.key_type, pattern |-> key.pattern,
                      category |-> category, enabled |-> 1, hits |-> 0, source |-> source]}

(* ------------------------------------------------------------------ *)
(* State                                                               *)
(* ------------------------------------------------------------------ *)
Procs == {"p1", "p2"}
Actor == "u1"
ActorHousehold == "h1"
OtherUser == "u2"
OtherHousehold == "h2"
\* an absent timestamp ('' in the form, no value)
NoTime == -1

VARIABLES
    now,     \* the clock, in seconds (CURRENT_TIMESTAMP, datetime.utcnow())
    db,      \* the committed database: expenses, categories of Actor, category_rules, import_staging, audit_logs
    tx,      \* tx[p]: the database as connection p sees it while it has uncommitted writes, else NoTx
    pc,      \* pc[p]: where request handler p stands
    edit,    \* edit[p]: the edit form the client of p has loaded and the locals of edit_expense
    learn,   \* learn[p]: the locals of learn_rule called from edit_expense
    conf,    \* conf[p]: the locals of import_csv (confirm)
    resp,    \* resp[p]: the outcome of the last request p finished
    used     \* requests started so far, by kind

vars == <<now, db, tx, pc, edit, learn, conf, resp, used>>

NoTx == [none |-> TRUE]
\* no row of expenses
NoRow == [id |-> 0, user |-> "", household |-> "", date |-> 0, amount |-> 0, category_id |-> "",
          description |-> <<>>, vendor |-> <<>>, paid_by |-> "", is_transfer |-> 0, is_personal |-> 0,
          updated_at |-> NoTime]
NoEdit == [id |-> 0, loaded |-> NoRow, submitted_updated_at |-> NoTime, form_category_id |-> "",
           category_id |-> "", description |-> <<>>, amount |-> 0, date |-> 0, paid_by |-> "",
           previous_category_id |-> "", vendor |-> <<>>, effective_updated_at |-> NoTime,
           resolved_category |-> ""]
NoLearn == [description |-> <<>>, vendor |-> <<>>, category_id |-> "", source |-> "",
            key |-> [ok |-> FALSE, key_type |-> "", pattern |-> <<>>], existing |-> 0]
\* inserted: the ids of the rows of expenses this confirm has inserted (kept to state properties)
NoConf == [import_id |-> 0, rows |-> <<>>, index |-> 0, imported_count |-> 0, skipped_count |-> 0,
           preview_count |-> 0, learned_rule_keys |-> {}, default_paid_by |-> "", categories |-> {},
           inserted |-> {}]
\* the answer to a request; import_id: the import id a confirm was about
Resp(kind, status, import_id) == [kind |-> kind, status |-> status, import_id |-> import_id]
NoResp == Resp("", "", 0)

View(p) == IF tx[p] # NoTx THEN tx[p] ELSE db

\* a write needs SQLite's write lock, which a connection with uncommitted writes holds
CanWrite(p) == \A q \in Procs \ {p} : tx[q] = NoTx

(* ------------------------------------------------------------------ *)
(* Inputs                                                              *)
(* ------------------------------------------------------------------ *)
\* descriptions typed into the expense form
FormDescriptions == {<<"Metro", "12">>, <<"Store">>, <<"Transfer">>}
\* the category select of the expense form ("" : none chosen)
FormCategories(categories) == (categories \cap {"Groceries", "Personal"}) \cup {""}

\* an audit entry that leaves the skipped rows out
AuditEntryNoSkips(action, expense_id, imported_count, skipped_count, preview_count) ==
    [action |-> action, expense_id |-> expense_id, imported_count |-> imported_count,
     skipped_count |-> 0, preview_count |-> preview_count]

\* log_audit: the row INSERTed into audit_logs
AuditEntry(action, expense_id, imported_count, skipped_count, preview_count) ==
    [action |-> action, expense_id |-> expense_id, imported_count |-> imported_count,
     skipped_count |-> skipped_count, preview_count |-> preview_count]

\* a transaction of another household
Foreign ==
    [id |-> 1, user |-> OtherUser, household |-> OtherHousehold, date |-> 1, amount |-> -1000,
     category_id |-> "", description |-> <<"Metro", "12">>, vendor |-> <<"metro">>, paid_by |-> "DK",
     is_transfer |-> 0, is_personal |-> 0, updated_at |-> 0]

\* re.sub(r"\s+", " ", value.strip()) on a category cell
normalize_csv_category_name(value) == Strip(value)

\* parse_csv_transactions: the row made of one line of the file (no vendor column mapped)
ParsedRow(row_index, line) ==
    [row_index |-> row_index, date |-> line.date, amount |-> line.amount, description |-> line.description,
     vendor |-> derive_vendor(line.description),
     normalized_description |-> normalize_description(line.description),
     category |-> infer_category(line.description, line.category, {}),
     csv_category_name |-> normalize_csv_category_name(line.category),
     paid_by |-> normalize_paid_by(line.paid_by),
     auto_category |-> "", mapped_category_id |-> "", override_category |-> ""]

\* resolve_csv_category_mapping: the category the CSV category names ("" : none)
CsvMatch(csv_category_name, categories) ==
    IF csv_category_name = "" THEN ""
    ELSE IF Found(csv_category_name, categories) = {} THEN ""
    ELSE CHOOSE c \in Found(csv_category_name, categories) : TRUE

\* lines 2797-2841: the staged form of one parsed row, given the engine's answer for it
PreviewRow(row, import_default_paid_by, categorized, categories) ==
    LET filled == [row EXCEPT !.paid_by = IF @ = "" THEN import_default_paid_by ELSE @,
                              !.auto_category = categorized.category]
        matched == CsvMatch(row.csv_category_name, categories)
    IN  IF matched # "" THEN [filled EXCEPT !.category = matched, !.mapped_category_id = matched]
        ELSE IF row.csv_category_name # "" THEN [filled EXCEPT !.category = "", !.mapped_category_id = ""]
        ELSE [filled EXCEPT !.category = categorized.category, !.mapped_category_id = ""]

\* a line of a file: date, amount, description, category cell, paid_by cell
GymLine == [date |-> 1, amount |-> -1000, description |-> <<"Gym">>, category |-> "", paid_by |-> "dk"]

\* a preview another household staged at time 0
ForeignBatch ==
    [import_id |-> 1, household |-> OtherHousehold, user |-> OtherUser, created_at |-> 0,
     rows |-> <<PreviewRow(ParsedRow(0, GymLine), "", [category |-> "Personal"], DEFAULT_CATEGORIES)>>]

\* lines 2670-2693: the row INSERTed
ImportedExpense(id, row, o, at) ==
    [id |-> id, user |-> Actor, household |-> ActorHousehold, date |-> row.date, amount |-> row.amount,
     category_id |-> o.category_id, description |-> row.description,
     vendor |-> IF row.vendor # <<>> THEN row.vendor ELSE derive_vendor(row.description),
     paid_by |-> row.paid_by,
     is_transfer |-> IF is_transfer_transaction(row.description, o.assigned_category) THEN 1 ELSE 0,
     is_personal |-> IF o.assigned_category = "Personal" THEN 1 ELSE 0,
     updated_at |-> at]

\* what Actor did at time 0: a transaction entered by hand with no category chosen
\* (create_expense), or a file of one line imported (preview and confirm)
Seeds ==
    {[expense |-> [id |-> 2, user |-> Actor, household |-> ActorHousehold, date |-> 1, amount |-> -1000,
                   category_id |-> "", description |-> <<"Store">>, vendor |-> <<"store">>,
                   paid_by |-> "DK", is_transfer |-> 0, is_personal |-> 0, updated_at |-> 0],
      audit |-> AuditEntry("create", 2, 0, 0, 0)],
     [expense |-> [id |-> 2, user |-> Actor, household |-> ActorHousehold, date |-> 1, amount |-> -1000,
                   category_id |-> "Groceries", description |-> <<"Metro", "12">>, vendor |-> <<"metro">>,
                   paid_by |-> "DK", is_transfer |-> 0, is_personal |-> 0, updated_at |-> 0],
      audit |-> AuditEntry("create", 2, 0, 0, 0)],
     [expense |-> ImportedExpense(2, PreviewRow(ParsedRow(0, GymLine), "", [category |-> "Personal"],
                                                DEFAULT_CATEGORIES),
                                  [assigned_category |-> "Personal", category_id |-> "Personal"], 0),
      audit |-> AuditEntry("import", 0, 1, 0, 1)]}

Init ==
    /\ now = 0
    /\ \E seed \in Seeds :
         db = [expenses |-> {Foreign, seed.expense}, next_expense_id |-> 3,
               categories |-> DEFAULT_CATEGORIES, rules |-> {}, next_rule_id |-> 1,
               staging |-> {ForeignBatch}, next_import_id |-> 2, audit |-> <<seed.audit>>]
    /\ tx = [p \in Procs |-> NoTx]
    /\ pc = [p \in Procs |-> "idle"]
    /\ edit = [p \in Procs |-> NoEdit]
    /\ learn = [p \in Procs |-> NoLearn]
    /\ conf = [p \in Procs |-> NoConf]
    /\ resp = [p \in Procs |-> NoResp]
    /\ used = [requests |-> 0, ticks |-> 0, previews |-> 0, days |-> 0]

StartRequest == /\ used.requests < MaxRequests
                /\ used' = [used EXCEPT !.requests = @ + 1]

\* get_household_expense: SELECT * FROM expenses WHERE id = ? AND household_id = ?
HouseholdExpenses(d, expense_id) ==
    {e \in d.expenses : e.id = expense_id /\ e.household = ActorHousehold}

(* ------------------------------------------------------------------ *)
(* The clock                                                           *)
(* ------------------------------------------------------------------ *)
Tick ==
    /\ used.ticks < MaxTicks
    /\ used' = [used EXCEPT !.ticks = @ + 1]
    /\ now' = now + 1
    /\ UNCHANGED <<db, tx, pc, edit, learn, conf, resp>>

(* ------------------------------------------------------------------ *)
(* create_expense (POST)                                               *)
(* ------------------------------------------------------------------ *)
\* lines 1780-1801: the resolved category, the category id, and the rules after the hit updates
ResolveManual(rules, categories, form_category_id, description, vendor) ==
    LET firsts == IF form_category_id \in categories
                  THEN {[category |-> form_category_id, hit |-> 0]}
                  ELSE {[category |-> c.category, hit |-> c.hit]
                          : c \in categorize_transaction(rules, Actor, description, vendor, "", categories)}
    IN  UNION {
          LET rules1 == IncrementHits(rules, f.hit)
              category_id == IF form_category_id \in categories THEN form_category_id
                             ELSE IF f.category \in categories THEN f.category ELSE ""
          IN  {[resolved_category |-> f.category, category_id |-> category_id,
                rules |-> IncrementHits(rules1, c2.hit)]
                 : c2 \in categorize_transaction(rules1, Actor, description, derive_vendor(description),
                                                  f.category, categories)}
          : f \in firsts}

CreateExpense(p) ==
    /\ pc[p] = "idle"
    /\ CanWrite(p)
    /\ StartRequest
    /\ \E date \in {1}, amount \in {-1000}, paid_by \in {"DK"}, description \in FormDescriptions,
          form_category_id \in FormCategories(db.categories) :
        \E r \in ResolveManual(db.rules, db.categories, form_category_id, description, <<>>) :
          /\ db' = [db EXCEPT
                     !.rules = r.rules,
                     !.expenses = @ \cup {[id |-> db.next_expense_id, user |-> Actor, household |-> ActorHousehold,
                        date |-> date, amount |-> amount, category_id |-> r.category_id,
                        description |-> description, vendor |-> derive_vendor(description),
                        paid_by |-> normalize_paid_by(paid_by),
                        is_transfer |-> IF is_transfer_transaction(description, r.resolved_category) THEN 1 ELSE 0,
                        is_personal |-> IF r.resolved_category = "Personal" THEN 1 ELSE 0,
                        updated_at |-> now]},
                     !.next_expense_id = @ + 1,
                     !.audit = Append(@, AuditEntry("create", db.next_expense_id, 0, 0, 0))]
          /\ resp' = [resp EXCEPT ![p] = Resp("create", "added", 0)]
    /\ UNCHANGED <<now, tx, pc, edit, learn, conf>>

(* ------------------------------------------------------------------ *)
(* edit_expense                                                        *)
(* ------------------------------------------------------------------ *)
\* GET: the client reads the transaction; the form shows its fields and carries its updated_at
EditLoad(p) ==
    /\ pc[p] = "idle"
    /\ \E e \in db.expenses :
         /\ e.household = ActorHousehold
         /\ edit[p] = NoEdit
         /\ edit' = [edit EXCEPT ![p] = [NoEdit EXCEPT !.id = e.id, !.loaded = e]]
    /\ UNCHANGED <<now, db, tx, pc, learn, conf, resp, used>>

\* POST, lines 1904-1946: the handler reads the transaction and resolves the category
EditBegin(p) ==
    /\ pc[p] = "idle"
    /\ edit[p].id # 0
    /\ StartRequest
    /\ \E submitted \in {edit[p].loaded.updated_at, NoTime}, amount \in {-1000}, paid_by \in {"DK"},
          description \in FormDescriptions, form_category_id \in FormCategories(db.categories) :
        IF HouseholdExpenses(db, edit[p].id) = {}
        THEN /\ resp' = [resp EXCEPT ![p] = Resp("edit", "not_found", 0)]
             /\ edit' = [edit EXCEPT ![p] = NoEdit]
             /\ UNCHANGED <<db, pc>>
        ELSE \E expense \in HouseholdExpenses(db, edit[p].id) :
             \E r \in ResolveManual(db.rules, db.categories, form_category_id, description, expense.vendor) :
               /\ r.rules # db.rules => CanWrite(p)
               /\ db' = [db EXCEPT !.rules = r.rules]
               /\ edit' = [edit EXCEPT ![p] =
                     [@ EXCEPT !.submitted_updated_at = submitted,
                               !.form_category_id = form_category_id,
                               !.category_id = r.category_id,
                               !.description = description,
                               !.amount = amount,
                               !.date = expense.date,
                               !.paid_by = normalize_paid_by(paid_by),
                               !.previous_category_id = expense.category_id,
                               !.vendor = expense.vendor,
                               !.effective_updated_at =
                                   IF submitted # NoTime THEN submitted ELSE expense.updated_at,
                               !.resolved_category = r.resolved_category]]
               /\ pc' = [pc EXCEPT ![p] = "edit_update"]
               /\ UNCHANGED resp
    /\ UNCHANGED <<now, tx, learn, conf>>

\* an UPDATE that matches on the id and the household alone
EditWhereAnyVersion(x, e) == x.id = e.id /\ x.household = ActorHousehold

\* WHERE id = ? AND household_id = ? AND COALESCE(updated_at, '') = ?
EditWhere(x, e) == x.id = e.id /\ x.household = ActorHousehold /\ x.updated_at = e.effective_updated_at

\* UPDATE expenses SET ..., updated_at = CURRENT_TIMESTAMP WHERE ...
EditedExpenses(expenses, e, at) ==
    {IF EditWhere(x, e)
     THEN [x EXCEPT !.date = e.date, !.amount = e.amount, !.category_id = e.category_id,
                    !.description = e.description, !.vendor = derive_vendor(e.description),
                    !.is_transfer = IF is_transfer_transaction(e.description, e.resolved_category) THEN 1 ELSE 0,
                    !.is_personal = IF e.resolved_category = "Personal" THEN 1 ELSE 0,
                    !.paid_by = e.paid_by, !.updated_at = at]
     ELSE x : x \in expenses}

\* result.rowcount
EditRowcount(expenses, e) == Cardinality({x \in expenses : EditWhere(x, e)})

\* lines 1957-1990: the UPDATE, then the audit entry and the commit, or the rollback
EditUpdate(p) ==
    /\ pc[p] = "edit_update"
    /\ CanWrite(p)
    /\ LET e == edit[p] IN
       IF EditRowcount(db.expenses, e) = 0
       THEN /\ resp' = [resp EXCEPT ![p] = Resp("edit", "reload", 0)]
            /\ pc' = [pc EXCEPT ![p] = "idle"]
            /\ edit' = [edit EXCEPT ![p] = NoEdit]
            /\ UNCHANGED <<db, learn>>
       ELSE /\ db' = [db EXCEPT !.expenses = EditedExpenses(@, e, now),
                                !.audit = Append(@, AuditEntry("edit", e.id, 0, 0, 0))]
            /\ IF e.category_id # "" /\ e.previous_category_id # e.category_id
               THEN /\ learn' = [learn EXCEPT ![p] =
                          [NoLearn EXCEPT !.description = e.description,
                                          !.vendor = IF e.vendor # <<>> THEN e.vendor
                                                     ELSE derive_vendor(e.description),
                                          !.category_id = e.category_id,
                                          !.source = "manual_edit"]]
                    /\ pc' = [pc EXCEPT ![p] = "learn_read"]
                    /\ UNCHANGED <<resp, edit>>
               ELSE /\ resp' = [resp EXCEPT ![p] = Resp("edit", "updated", 0)]
                    /\ pc' = [pc EXCEPT ![p] = "idle"]
                    /\ edit' = [edit EXCEPT ![p] = NoEdit]
                    /\ UNCHANGED learn
    /\ UNCHANGED <<now, tx, conf, used>>

\* learn_rule, lines 1404-1432: up to the SELECT of the existing rule
LearnRead(p) ==
    /\ pc[p] = "learn_read"
    /\ LET l == learn[p]
           key == LearnKey(db.categories, l.description, l.vendor, l.category_id)
       IN  IF ~key.ok
           THEN /\ pc' = [pc EXCEPT ![p] = "idle"]
                /\ learn' = [learn EXCEPT ![p] = NoLearn]
                /\ edit' = [edit EXCEPT ![p] = NoEdit]
                /\ resp' = [resp EXCEPT ![p] = Resp("edit", "updated", 0)]
           ELSE /\ \E existing \in ExistingRuleIds(db.rules, Actor, key.key_type, key.pattern) :
                     learn' = [learn EXCEPT ![p] = [@ EXCEPT !.key = key, !.existing = existing]]
                /\ pc' = [pc EXCEPT ![p] = "learn_write"]
                /\ UNCHANGED <<edit, resp>>
    /\ UNCHANGED <<now, db, tx, conf, used>>

\* learn_rule, lines 1433-1457: the UPDATE or the INSERT, and the commit
LearnWrite(p) ==
    /\ pc[p] = "learn_write"
    /\ CanWrite(p)
    /\ LET l == learn[p] IN
       db' = [db EXCEPT !.rules = LearnWriteRules(@, db.next_rule_id, Actor, l.key, l.category_id,
                                                  l.source, l.existing),
                        !.next_rule_id = IF l.existing = 0 THEN @ + 1 ELSE @]
    /\ pc' = [pc EXCEPT ![p] = "idle"]
    /\ learn' = [learn EXCEPT ![p] = NoLearn]
    /\ edit' = [edit EXCEPT ![p] = NoEdit]
    /\ resp' = [resp EXCEPT ![p] = Resp("edit", "updated", 0)]
    /\ UNCHANGED <<now, tx, conf, used>>

(* ------------------------------------------------------------------ *)
(* /rules                                                              *)
(* ------------------------------------------------------------------ *)
update_rule(p) ==
    /\ pc[p] = "idle"
    /\ CanWrite(p)
    /\ StartRequest
    /\ \E r \in db.rules, category \in FormCategories(db.categories) \ {""}, is_enabled \in {0, 1} :
         /\ r.user = Actor
         /\ db' = [db EXCEPT !.rules = {IF x.id = r.id
                                         THEN [x EXCEPT !.category = category, !.enabled = is_enabled]
                                         ELSE x : x \in @}]
    /\ resp' = [resp EXCEPT ![p] = Resp("rule", "updated", 0)]
    /\ UNCHANGED <<now, tx, pc, edit, learn, conf>>

delete_rule(p) ==
    /\ pc[p] = "idle"
    /\ CanWrite(p)
    /\ StartRequest
    /\ \E r \in db.rules :
         /\ r.user = Actor
         /\ db' = [db EXCEPT !.rules = {x \in @ : x.id # r.id}]
    /\ resp' = [resp EXCEPT ![p] = Resp("rule", "deleted", 0)]
    /\ UNCHANGED <<now, tx, pc, edit, learn, conf>>

(* ------------------------------------------------------------------ *)
(* bulk_expense_action and delete_category                             *)
(* ------------------------------------------------------------------ *)
\* the selections of a bulk form: the non-empty sets of ids, of transactions of any household
\* and of an id no transaction has
Selections(expenses) == SUBSET ({e.id : e \in expenses} \cup {9}) \ {{}}

\* a check that is content with one selected transaction of the household
OwnsSome(expenses, ids) ==
    \E e \in expenses : e.household = ActorHousehold /\ e.id \in ids

\* lines 2112-2118: every selected id is a transaction of the household
OwnsAll(expenses, ids) ==
    Cardinality({e \in expenses : e.household = ActorHousehold /\ e.id \in ids}) = Cardinality(ids)

\* what a bulk UPDATE ... WHERE household_id = ? AND id IN (ids) leaves in expenses
BulkUpdated(expenses, ids, field, value) ==
    {IF e.household = ActorHousehold /\ e.id \in ids
     THEN [e EXCEPT ![field] = value] ELSE e : e \in expenses}

\* action = set_category, lines 2120-2138
BulkSetCategory(p, ids, category_id) ==
    /\ pc[p] = "idle"
    /\ CanWrite(p)
    /\ StartRequest
    /\ IF ~OwnsAll(db.expenses, ids)
       THEN /\ resp' = [resp EXCEPT ![p] = Resp("bulk", "invalid", 0)]
            /\ UNCHANGED db
       ELSE IF category_id = ""
       THEN /\ resp' = [resp EXCEPT ![p] = Resp("bulk", "choose_category", 0)]
            /\ UNCHANGED db
       ELSE IF category_id \notin db.categories
       THEN /\ resp' = [resp EXCEPT ![p] = Resp("bulk", "invalid_category", 0)]
            /\ UNCHANGED db
       ELSE /\ db' = [db EXCEPT !.expenses = BulkUpdated(@, ids, "category_id", category_id)]
            /\ resp' = [resp EXCEPT ![p] = Resp("bulk", "updated", 0)]
    /\ UNCHANGED <<now, tx, pc, edit, learn, conf>>

bulk_set_category(p) ==
    \E ids \in Selections(db.expenses), category_id \in {"", "Groceries", "Personal", "Transfers"} :
      BulkSetCategory(p, ids, category_id)

\* action = set_paid_by, lines 2140-2151
BulkSetPaidBy(p, ids, raw_paid_by) ==
    /\ pc[p] = "idle"
    /\ CanWrite(p)
    /\ StartRequest
    /\ IF ~OwnsAll(db.expenses, ids)
       THEN /\ resp' = [resp EXCEPT ![p] = Resp("bulk", "invalid", 0)]
            /\ UNCHANGED db
       ELSE IF normalize_paid_by(raw_paid_by) \notin {"", "DK", "YZ"}
       THEN /\ resp' = [resp EXCEPT ![p] = Resp("bulk", "invalid_paid_by", 0)]
            /\ UNCHANGED db
       ELSE /\ db' = [db EXCEPT !.expenses = BulkUpdated(@, ids, "paid_by", normalize_paid_by(raw_paid_by))]
            /\ resp' = [resp EXCEPT ![p] = Resp("bulk", "updated", 0)]
    /\ UNCHANGED <<now, tx, pc, edit, learn, conf>>

bulk_set_paid_by(p) ==
    \E ids \in Selections(db.expenses), raw_paid_by \in {"", "yz", "XX"} :
      BulkSetPaidBy(p, ids, raw_paid_by)

\* action = set_transfer, lines 2153-2161
BulkSetTransfer(p, ids, is_transfer) ==
    /\ pc[p] = "idle"
    /\ CanWrite(p)
    /\ StartRequest
    /\ IF ~OwnsAll(db.expenses, ids)
       THEN /\ resp' = [resp EXCEPT ![p] = Resp("bulk", "invalid", 0)]
            /\ UNCHANGED db
       ELSE /\ db' = [db EXCEPT !.expenses = BulkUpdated(@, ids, "is_transfer", is_transfer)]
            /\ resp' = [resp EXCEPT ![p] = Resp("bulk", "updated", 0)]
    /\ UNCHANGED <<now, tx, pc, edit, learn, conf>>

bulk_set_transfer(p) ==
    \E ids \in Selections(db.expenses), is_transfer \in {0, 1} :
      BulkSetTransfer(p, ids, is_transfer)

\* delete_household_expenses, lines 2007-2010: the selected rows of the household
SelectedExpenses(expenses, ids) ==
    {e \in expenses : e.household = ActorHousehold /\ e.id \in ids}

\* the 'delete' audit entries of the deleted rows, in the order of their ids
RECURSIVE DeleteAudits(_)
DeleteAudits(ids) ==
    IF ids = {} THEN <<>>
    ELSE LET first == CHOOSE i \in ids : \A j \in ids : i <= j
         IN  <<AuditEntry("delete", first, 0, 0, 0)>> \o DeleteAudits(ids \ {first})

\* audit_logs after DELETE FROM audit_logs WHERE expense_id IN (ids)
RECURSIVE WithoutAuditsOf(_, _)
WithoutAuditsOf(audit, ids) ==
    IF audit = <<>> THEN <<>>
    ELSE (IF Head(audit).expense_id \in ids THEN <<>> ELSE <<Head(audit)>>)
           \o WithoutAuditsOf(Tail(audit), ids)

\* action = delete: delete_household_expenses, lines 1994-2040
BulkDelete(p, ids) ==
    /\ pc[p] = "idle"
    /\ CanWrite(p)
    /\ StartRequest
    /\ IF Cardinality(SelectedExpenses(db.expenses, ids)) # Cardinality(ids)
       THEN /\ resp' = [resp EXCEPT ![p] = Resp("bulk", "invalid", 0)]
            /\ UNCHANGED db
       ELSE /\ db' = [db EXCEPT
                       !.expenses = {e \in @ : ~(e.household = ActorHousehold /\ e.id \in ids)},
                       !.audit = WithoutAuditsOf(@, ids) \o DeleteAudits(ids)]
            /\ resp' = [resp EXCEPT ![p] = Resp("bulk", "deleted", 0)]
    /\ UNCHANGED <<now, tx, pc, edit, learn, conf>>

bulk_delete(p) ==
    \E ids \in Selections(db.expenses) : BulkDelete(p, ids)

\* lines 2218-2229
delete_category(p) ==
    /\ pc[p] = "idle"
    /\ CanWrite(p)
    /\ StartRequest
    /\ \E category_id \in db.categories :
         db' = [db EXCEPT !.expenses =
                  {IF e.category_id = category_id /\ e.user = Actor
                   THEN [e EXCEPT !.category_id = ""] ELSE e : e \in @},
                          !.categories = @ \ {category_id}]
    /\ resp' = [resp EXCEPT ![p] = Resp("category", "deleted", 0)]
    /\ UNCHANGED <<now, tx, pc, edit, learn, conf>>

NextFlags ==
    \E p \in Procs :
      \/ CreateExpense(p)
      \/ bulk_set_category(p)
      \/ bulk_set_transfer(p)
      \/ delete_category(p)

SpecFlags == Init /\ [][NextFlags]_vars

\* C5: every persisted transaction has is_personal = 1 exactly when its category is 'Personal',
\* and an is_transfer flag that agrees with its category: 1 for 'Transfers' and
\* 'Credit Card Payments', 0 for any other category.
C5_FlagsFollowCategory ==
    \A e \in db.expenses :
      /\ (e.is_personal = 1) <=> (e.category_id = "Personal")
      /\ e.category_id \in {"Transfers", "Credit Card Payments"} => e.is_transfer = 1
      /\ e.category_id \notin {"Transfers", "Credit Card Payments", ""} => e.is_transfer = 0

NextBulk ==
    \E p \in Procs :
      \/ CreateExpense(p)
      \/ bulk_delete(p)
      \/ bulk_set_category(p)
      \/ bulk_set_paid_by(p)
      \/ bulk_set_transfer(p)

SpecBulk == Init /\ [][NextBulk]_vars

\* a bulk request of p with the selection ids
BulkStep(p, ids) ==
    \/ BulkDelete(p, ids)
    \/ \E category_id \in {"", "Groceries", "Personal", "Transfers"} : BulkSetCategory(p, ids, category_id)
    \/ \E raw_paid_by \in {"", "yz", "XX"} : BulkSetPaidBy(p, ids, raw_paid_by)
    \/ \E is_transfer \in {0, 1} : BulkSetTransfer(p, ids, is_transfer)

\* whether some selected id is not a transaction of the caller's household
HasForeignId(expenses, ids) ==
    \E i \in ids : ~\E e \in expenses : e.id = i /\ e.household = ActorHousehold

\* C11: a bulk action (delete, set_category, set_paid_by, set_transfer) whose selection holds
\* an id that is not a transaction of the caller's household changes nothing: no transaction
\* of any household is deleted or updated, no audit entry is removed or written, and the
\* answer is that the selection is invalid.
C11_InvalidSelectionChangesNothing ==
    [][\A p \in Procs : \A ids \in Selections(db.expenses) :
         (BulkStep(p, ids) /\ HasForeignId(db.expenses, ids))
         => (db' = db /\ resp'[p] = Resp("bulk", "invalid", 0))]_vars

\* a selection mixing a transaction of the household with one of another household was
\* rejected, and a valid selection was applied
C11_Witness ==
    /\ \E p \in Procs : resp[p] = Resp("bulk", "invalid", 0)
    /\ \E p \in Procs : resp[p].kind = "bulk" /\ resp[p].status \in {"updated", "deleted"}
    /\ Foreign \in db.expenses

(* ------------------------------------------------------------------ *)
(* import_csv: preview                                                 *)
(* ------------------------------------------------------------------ *)
\* the lines a file may hold
FileLines ==
    {[date |-> 1, amount |-> -1000, description |-> <<"METRO", "12">>, category |-> "", paid_by |-> ""],
     GymLine,
     [date |-> 1, amount |-> 1000, description |-> <<"Store">>, category |-> " Misc", paid_by |-> ""]}

Files == UNION {[1..n -> FileLines] : n \in 1..MaxRows}

\* cleanup_expired_import_staging: DELETE FROM import_staging WHERE created_at < cutoff
cleanup_expired_import_staging(staging, at) ==
    {b \in staging : ~(b.created_at < at - StagingTTL)}

\* lines 2807-2841 over the rows from index i on: outcomes [rows, rules]
RECURSIVE PreviewRows(_, _, _, _, _)
PreviewRows(rules, categories, file, import_default_paid_by, i) ==
    IF i > Len(file) THEN {[rows |-> <<>>, rules |-> rules]}
    ELSE LET parsed == ParsedRow(i - 1, file[i]) IN
         UNION {
           {[rows |-> <<PreviewRow(parsed, import_default_paid_by, c, categories)>> \o rest.rows,
             rules |-> rest.rules]
              : rest \in PreviewRows(IncrementHits(rules, c.hit), categories, file,
                                      import_default_paid_by, i + 1)}
           : c \in categorize_transaction(rules, Actor, parsed.description, parsed.vendor,
                                           parsed.category, categories)}

Preview(p) ==
    /\ pc[p] = "idle"
    /\ CanWrite(p)
    /\ used.previews < MaxPreviews
    /\ used' = [used EXCEPT !.previews = @ + 1]
    /\ \E file \in Files, import_default_paid_by \in {""} :
        \E r \in PreviewRows(db.rules, db.categories, file, normalize_paid_by(import_default_paid_by), 1) :
          db' = [db EXCEPT
                   !.rules = r.rules,
                   !.staging = cleanup_expired_import_staging(@, now)
                               \cup {[import_id |-> db.next_import_id, household |-> ActorHousehold,
                                       user |-> Actor, created_at |-> now, rows |-> r.rows]},
                   !.next_import_id = @ + 1]
    /\ resp' = [resp EXCEPT ![p] = Resp("preview", "staged", 0)]
    /\ UNCHANGED <<now, tx, pc, edit, learn, conf>>

(* ------------------------------------------------------------------ *)
(* import_csv: confirm                                                 *)
(* ------------------------------------------------------------------ *)
\* the staged rows of an import id, whoever staged them
StagedRowsOfAnyone(staging, import_id) ==
    LET found == {b \in staging : b.import_id = import_id}
    IN  IF found = {} THEN <<>> ELSE (CHOOSE b \in found : TRUE).rows

\* get_staged_preview_rows(db, import_id, household_id, user_id)
get_staged_preview_rows(staging, import_id) ==
    LET found == {b \in staging : b.import_id = import_id /\ b.household = ActorHousehold /\ b.user = Actor}
    IN  IF found = {} THEN <<>> ELSE (CHOOSE b \in found : TRUE).rows

\* lines 2590-2594
DefaultPaidBy(raw_default_paid_by, has_paid_by_overrides) ==
    IF raw_default_paid_by = "<absent>"
    THEN (IF has_paid_by_overrides THEN "" ELSE "DK")
    ELSE normalize_paid_by(raw_default_paid_by)

\* lines 2572-2596
ConfirmBegin(p) ==
    /\ pc[p] = "idle"
    /\ StartRequest
    /\ \E import_id \in 0..(db.next_import_id - 1), raw_default_paid_by \in {"<absent>", "", "DK"},
          has_paid_by_overrides \in BOOLEAN :
        LET parsed_rows == get_staged_preview_rows(db.staging, import_id) IN
        IF parsed_rows = <<>>
        THEN /\ resp' = [resp EXCEPT ![p] = Resp("confirm", "preview_expired", import_id)]
             /\ UNCHANGED <<pc, conf>>
        ELSE /\ conf' = [conf EXCEPT ![p] =
                   [NoConf EXCEPT !.import_id = import_id, !.rows = parsed_rows, !.index = 1,
                                  !.preview_count = Len(parsed_rows),
                                  !.default_paid_by = DefaultPaidBy(raw_default_paid_by, has_paid_by_overrides),
                                  !.categories = db.categories]]
             /\ pc' = [pc EXCEPT ![p] = "confirm_row"]
             /\ UNCHANGED resp
    /\ UNCHANGED <<now, db, tx, edit, learn>>

\* a dedup check that compares the stored description as it is
IsDuplicateRaw(expenses, row) ==
    \E item \in expenses :
      /\ item.household = ActorHousehold /\ item.date = row.date /\ item.amount = row.amount
      /\ item.description = row.normalized_description

\* lines 2616-2626: the dedup check
IsDuplicate(expenses, row) ==
    \E item \in expenses :
      /\ item.household = ActorHousehold /\ item.date = row.date /\ item.amount = row.amount
      /\ normalize_description(item.description) = row.normalized_description

\* lines 2630-2665: outcomes [assigned_category, category_id, hit]
ConfirmResolve(rules, categories, row, override) ==
    LET by_override == IF override # "" THEN pick_existing_category(override, categories, "") ELSE ""
    IN  IF by_override # ""
        THEN {[assigned_category |-> by_override, category_id |-> by_override, hit |-> 0]}
        ELSE IF row.mapped_category_id # "" /\ row.mapped_category_id \in categories
        THEN {[assigned_category |-> row.mapped_category_id, category_id |-> row.mapped_category_id, hit |-> 0]}
        ELSE IF row.csv_category_name # ""
        THEN {[assigned_category |-> by_override, category_id |-> "", hit |-> 0]}
        ELSE {[assigned_category |-> c.category,
               category_id |-> IF c.category \in categories THEN c.category ELSE "",
               hit |-> c.hit]
                : c \in categorize_transaction(rules, Actor, row.description, row.vendor, row.category,
                                                categories)}

\* a test that lets every overridden row call learn_rule
ShouldLearnAnyOverride(override, category_id, auto_category, rule_identity, learned_rule_keys) ==
    /\ override # "" /\ category_id # ""
    /\ rule_identity \notin learned_rule_keys

\* lines 2694-2700: whether the row calls learn_rule
ShouldLearn(override, category_id, auto_category, rule_identity, learned_rule_keys) ==
    /\ override # "" /\ category_id # ""
    /\ normalize_name(override) # normalize_name(auto_category)
    /\ rule_identity \notin learned_rule_keys

\* one turn of the loop of lines 2597-2703.  The dedup check is a SELECT of its own (lines
\* 2616-2628): when another connection holds the write lock the row's first write waits for
\* it (busy_timeout) at "confirm_insert", and is made without a second dedup check.
ConfirmRow(p) ==
    /\ pc[p] \in {"confirm_row", "confirm_insert"}
    /\ LET c == conf[p]
           v == View(p)
           staged == c.rows[c.index]
       IN
       \E form_override \in FormCategories(c.categories) :
         LET override == IF form_override # "" THEN form_override ELSE staged.override_category
             paid_by_override ==
                 normalize_paid_by(IF staged.paid_by # "" THEN staged.paid_by ELSE c.default_paid_by)
             row == [staged EXCEPT
                       !.vendor = IF @ # <<>> THEN @ ELSE derive_vendor(staged.description),
                       !.category = IF override # "" THEN override ELSE @,
                       !.paid_by = paid_by_override]
             last == c.index = Len(c.rows)
         IN
         IF row.amount < 0 /\ paid_by_override = ""
         THEN \* return without commit: the connection is closed and its open transaction is lost
              /\ tx' = [tx EXCEPT ![p] = NoTx]
              /\ conf' = [conf EXCEPT ![p] = NoConf]
              /\ pc' = [pc EXCEPT ![p] = "idle"]
              /\ resp' = [resp EXCEPT ![p] = Resp("confirm", "missing_paid_by", c.import_id)]
              /\ UNCHANGED db
         ELSE IF pc[p] = "confirm_row" /\ IsDuplicate(v.expenses, row)
         THEN /\ conf' = [conf EXCEPT ![p] = [c EXCEPT !.skipped_count = @ + 1, !.index = @ + 1]]
              /\ pc' = [pc EXCEPT ![p] = IF last THEN "confirm_end" ELSE "confirm_row"]
              /\ UNCHANGED <<db, tx, resp>>
         ELSE IF ~CanWrite(p)
         THEN /\ pc[p] = "confirm_row"
              /\ pc' = [pc EXCEPT ![p] = "confirm_insert"]
              /\ UNCHANGED <<db, tx, conf, resp>>
         ELSE
           /\ \E o \in ConfirmResolve(v.rules, c.categories, row, override) :
                LET \* resolve_learned_category: UPDATE hits, commit
                    hit == [v EXCEPT !.rules = IncrementHits(@, o.hit)]
                    inserted == [hit EXCEPT
                                   !.expenses = @ \cup {ImportedExpense(v.next_expense_id, row, o, now)},
                                   !.next_expense_id = @ + 1]
                    rule_identity == <<extract_pattern(row.vendor, 4), extract_pattern(row.description, 3),
                                       o.category_id>>
                    learns == ShouldLearn(override, o.category_id, row.auto_category, rule_identity,
                                          c.learned_rule_keys)
                    key == LearnKey(v.categories, row.description, row.vendor, o.category_id)
                IN
                /\ IF learns /\ key.ok
                   THEN \E existing \in ExistingRuleIds(inserted.rules, Actor, key.key_type, key.pattern) :
                          /\ db' = [inserted EXCEPT
                                      !.rules = LearnWriteRules(@, inserted.next_rule_id, Actor, key,
                                                                o.category_id, "import_override", existing),
                                      !.next_rule_id = IF existing = 0 THEN @ + 1 ELSE @]
                          /\ tx' = [tx EXCEPT ![p] = NoTx]
                   ELSE /\ db' = IF o.hit # 0 THEN hit ELSE db
                        /\ tx' = [tx EXCEPT ![p] = inserted]
                /\ conf' = [conf EXCEPT ![p] =
                      [c EXCEPT !.imported_count = @ + 1, !.index = @ + 1,
                                !.inserted = @ \cup {v.next_expense_id},
                                !.learned_rule_keys = IF learns THEN @ \cup {rule_identity} ELSE @]]
                /\ pc' = [pc EXCEPT ![p] = IF last THEN "confirm_end" ELSE "confirm_row"]
                /\ UNCHANGED resp
    /\ UNCHANGED <<now, edit, learn, used>>

\* lines 2719-2728: the audit entry, the DELETE of the staged rows, the commit
ConfirmEnd(p) ==
    /\ pc[p] = "confirm_end"
    /\ CanWrite(p)
    /\ LET c == conf[p] IN
       /\ db' = [View(p) EXCEPT
                   !.audit = Append(@, AuditEntry("import", 0, c.imported_count, c.skipped_count,
                                                  c.preview_count)),
                   !.staging = {b \in @ : b.import_id # c.import_id}]
       /\ resp' = [resp EXCEPT ![p] = Resp("confirm", "imported", c.import_id)]
    /\ tx' = [tx EXCEPT ![p] = NoTx]
    /\ conf' = [conf EXCEPT ![p] = NoConf]
    /\ pc' = [pc EXCEPT ![p] = "idle"]
    /\ UNCHANGED <<now, edit, learn, used>>

\* a day passes
TickDay ==
    /\ used.days < MaxDays
    /\ used' = [used EXCEPT !.days = @ + 1]
    /\ now' = now + StagingTTL
    /\ UNCHANGED <<db, tx, pc, edit, learn, conf, resp>>

NextImport ==
    \/ Tick
    \/ TickDay
    \/ \E p \in Procs :
         \/ Preview(p)
         \/ ConfirmBegin(p)
         \/ ConfirmRow(p)
         \/ ConfirmEnd(p)

SpecImport == Init /\ [][NextImport]_vars

(* ------------------------------------------------------------------ *)
(* Properties of import_csv                                            *)
(* ------------------------------------------------------------------ *)
ViewNext(p) == IF tx'[p] # NoTx THEN tx'[p] ELSE db'

\* p takes a turn of the confirm loop
ConfirmRowStep(p) == pc[p] \in {"confirm_row", "confirm_insert"} /\ conf'[p] # conf[p]

\* the batches staged under an import id by Actor in Actor's household
StagedBy(staging, import_id) ==
    {b \in staging : b.import_id = import_id /\ b.household = ActorHousehold /\ b.user = Actor}

\* C1: import confirm is all-or-nothing with respect to missing payers: when a confirm is
\* rejected because a spending row has no paid_by, no row of the batch exists as a persisted
\* transaction after the request, whatever earlier rows of the batch went through.
C1_RejectedConfirmPersistsNothing ==
    [][\A p \in Procs :
         (pc[p] = "confirm_row" /\ pc'[p] = "idle")
         => (/\ resp'[p].status = "missing_paid_by"
             /\ \A e \in db'.expenses : e.id \notin conf[p].inserted)]_vars

\* C2: import dedup is idempotent: a staged row for which a persisted transaction of the
\* household with equal date and amount has the row's normalized description is never inserted
\* (it is skipped, unless the confirm is rejected at it for a missing payer), the row being
\* judged when the dedup check reads the persisted transactions;
\* a row that is inserted is from then on such a duplicate of itself; and when a confirm
\* succeeds every row of its batch has such a persisted transaction, so that confirming the
\* same parsed rows again inserts nothing.
C2_DedupIdempotent ==
    [][\A p \in Procs :
         /\ (ConfirmRowStep(p) /\ pc[p] = "confirm_row"
               /\ IsDuplicate(View(p).expenses, conf[p].rows[conf[p].index]))
            => (ViewNext(p).expenses \subseteq View(p).expenses /\ db'.expenses = db.expenses)
         /\ (ConfirmRowStep(p) /\ conf'[p].imported_count > conf[p].imported_count)
            => (/\ pc[p] = "confirm_row" => ~IsDuplicate(View(p).expenses, conf[p].rows[conf[p].index])
                /\ IsDuplicate(ViewNext(p).expenses, conf[p].rows[conf[p].index]))
         /\ (pc[p] = "confirm_end" /\ pc'[p] = "idle")
            => \A i \in 1..Len(conf[p].rows) : IsDuplicate(db'.expenses, conf[p].rows[i])]_vars

\* a confirm of rows that an earlier confirm imported has ended: it inserted none of them
C2_Witness ==
    /\ Len(db.audit) >= 2
    /\ db.audit[1].action = "import" /\ db.audit[1].imported_count = 1
    /\ db.audit[Len(db.audit)].action = "import"
    /\ db.audit[Len(db.audit)].imported_count = 0
    /\ db.audit[Len(db.audit)].skipped_count >= 1
    /\ Cardinality(db.expenses) = 2

\* C8: a staging batch past its 24-hour TTL is never imported: a confirm issued for an import id
\* whose staged rows were created more than 24 hours earlier is answered "preview expired" and
\* inserts no transaction, whether or not a sweep has run.
C8_ExpiredBatchNeverImported ==
    [][\A p \in Procs : \A b \in StagedBy(db.staging, conf'[p].import_id) :
         (pc[p] = "idle" /\ pc'[p] = "confirm_row" /\ now - b.created_at > StagingTTL)
         => FALSE]_vars

\* C9: a confirm for an import id with no row staged by the caller in the caller's household
\* (never staged, deleted by an earlier confirm, the empty id) is answered "Preview expired"
\* and writes nothing: no transaction, no rule, no audit entry.  The loop of confirm is entered
\* only for an id that has such rows, and a confirm that does not enter it leaves the database
\* as it is.
C9_NoStagedRowsPreviewExpired ==
    [][(used'.requests # used.requests) =>
         \A p \in Procs :
           /\ (pc[p] = "idle" /\ pc'[p] = "confirm_row")
              => StagedBy(db.staging, conf'[p].import_id) # {}
           /\ (pc[p] = "idle" /\ pc'[p] = "idle" /\ resp'[p] # resp[p])
              => (/\ db' = db /\ tx' = tx /\ conf' = conf
                  /\ resp'[p].kind = "confirm" /\ resp'[p].status = "preview_expired"
                  /\ StagedBy(db.staging, resp'[p].import_id) = {})]_vars

\* a confirm has been answered "preview expired" for the id of a batch that another confirm
\* imported (and so deleted from staging)
C9_Witness ==
    \E p, q \in Procs :
        /\ resp[p] = Resp("confirm", "preview_expired", 2)
        /\ resp[q] = Resp("confirm", "imported", 2)

\* C10: when a confirm of import id I succeeds, no staged row with import id I remains, and the
\* confirm writes exactly one 'import' audit entry, whose imported_count is the number of rows
\* the confirm inserted, whose skipped_count is the number it skipped, and whose counts add up
\* to the number of rows that were staged; every turn of the loop counts its row once.
C10_ConfirmEpilogue ==
    [][\A p \in Procs :
         /\ (pc[p] = "confirm_end" /\ pc'[p] = "idle")
            => LET c == conf[p]
                   entry == db'.audit[Len(db'.audit)]
               IN  /\ \A b \in db'.staging : b.import_id # c.import_id
                   /\ Len(db'.audit) = Len(View(p).audit) + 1
                   /\ SubSeq(db'.audit, 1, Len(View(p).audit)) = View(p).audit
                   /\ entry.action = "import"
                   /\ entry.imported_count = Cardinality(c.inserted)
                   /\ c.inserted \subseteq {e.id : e \in db'.expenses}
                   /\ entry.skipped_count = Len(c.rows) - Cardinality(c.inserted)
                   /\ entry.imported_count + entry.skipped_count = Len(c.rows)
                   /\ resp'[p] = Resp("confirm", "imported", c.import_id)
         /\ (ConfirmRowStep(p) /\ pc'[p] # "idle")
            => (/\ conf'[p].index = conf[p].index + 1
                /\ conf'[p].imported_count + conf'[p].skipped_count
                     = conf[p].imported_count + conf[p].skipped_count + 1
                /\ conf'[p].imported_count = Cardinality(conf'[p].inserted)
                /\ Len(ViewNext(p).audit) = Len(View(p).audit))]_vars

\* a confirm of two rows has succeeded having inserted one and skipped the other
C10_Witness ==
    \E p \in Procs :
      /\ resp[p].kind = "confirm" /\ resp[p].status = "imported"
      /\ db.audit[Len(db.audit)] = AuditEntry("import", 0, 1, 1, 2)
      /\ StagedBy(db.staging, resp[p].import_id) = {}

NextEdit ==
    \/ Tick
    \/ \E p \in Procs :
         \/ CreateExpense(p)
         \/ EditLoad(p)
         \/ EditBegin(p)
         \/ EditUpdate(p)
         \/ LearnRead(p)
         \/ LearnWrite(p)
         \/ update_rule(p)
         \/ delete_rule(p)

SpecEdit == Init /\ [][NextEdit]_vars

(* ------------------------------------------------------------------ *)
(* Properties of edit_expense and learn_rule                           *)
(* ------------------------------------------------------------------ *)
\* p takes the step of edit_expense that runs the UPDATE
EditUpdateStep(p) == pc[p] = "edit_update" /\ pc'[p] # "edit_update"

\* the rules without their hit counters
RuleFacts(rules) ==
    {[id |-> r.id, user |-> r.user, key_type |-> r.key_type, pattern |-> r.pattern,
      category |-> r.category, enabled |-> r.enabled, source |-> r.source] : r \in rules}

\* C3: optimistic concurrency prevents lost updates: when the transaction an editor read has been
\* changed by another editor's committed edit, the edit that presents the updated_at the editor
\* read is rejected and the stored values remain, whatever the time between the two edits.
C3_NoLostUpdate ==
    [][\A p \in Procs :
         (/\ EditUpdateStep(p)
          /\ edit[p].submitted_updated_at # NoTime
          /\ edit[p].submitted_updated_at = edit[p].loaded.updated_at
          /\ \E x \in HouseholdExpenses(db, edit[p].id) : x # edit[p].loaded)
         => (db'.expenses = db.expenses /\ resp'[p].status = "reload")]_vars

C6_OneEnabledRulePerKey ==
    \A r1, r2 \in db.rules :
      (r1.enabled = 1 /\ r2.enabled = 1 /\ r1.user = r2.user /\ r1.key_type = r2.key_type
         /\ r1.pattern = r2.pattern) => r1.id = r2.id

\* C7: a manual edit writes a rule (learn_rule's UPDATE or INSERT) only when the user chose a
\* category in the form and that category differs from the transaction's category; a category
\* the engine picked for a form submitted without one never creates or updates a rule.
C7_LearnOnlyFromUserChoice ==
    [][\A p \in Procs :
         (pc[p] = "learn_write" /\ pc'[p] # "learn_write" /\ learn[p].source = "manual_edit"
            /\ RuleFacts(db'.rules) # RuleFacts(db.rules))
         => (edit[p].form_category_id # ""
               /\ edit[p].form_category_id # edit[p].previous_category_id)]_vars

\* C12: once a manual edit has written the rule "vendor pattern P -> category B" (B no transfer
\* category) and while that rule stays enabled, every categorization by the same user of a
\* non-transfer transaction whose derived vendor pattern is P returns B with confidence 95
\* and source 'learned_vendor', whatever a keyword heuristic would suggest.
C12_LearnedVendorPrecedence ==
    \A r \in db.rules :
      (r.user = Actor /\ r.key_type = "vendor" /\ r.enabled = 1 /\ r.source = "manual_edit")
      => \A d \in FormDescriptions :
           (~is_transfer_transaction(d, "") /\ extract_pattern(derive_vendor(d), 4) = r.pattern)
           => \A c \in categorize_transaction(db.rules, Actor, d, <<>>, "", db.categories) :
                c.category = r.category /\ c.confidence = 95 /\ c.source = "learned_vendor"

(* ------------------------------------------------------------------ *)
(* categorize_transaction on its own                                   *)
(* ------------------------------------------------------------------ *)
\* rules the user can have: two rules for one vendor key (written by concurrent edits) and a
\* rule keyed by a description
RuleUniverse ==
    {[id |-> 1, key_type |-> "vendor", pattern |-> <<"metro">>, category |-> "Personal"],
     [id |-> 2, key_type |-> "vendor", pattern |-> <<"metro">>, category |-> "Groceries"],
     [id |-> 3, key_type |-> "description", pattern |-> <<"metro", "12">>, category |-> "Personal"]}

\* the stores made of these rules, any of them disabled (update_rule), none used yet
RuleStores ==
    {{[id |-> u.id, user |-> Actor, key_type |-> u.key_type, pattern |-> u.pattern,
       category |-> u.category, enabled |-> IF u \in disabled THEN 0 ELSE 1, hits |-> 0,
       source |-> "manual_edit"] : u \in chosen}
       : <<chosen, disabled>> \in {x \in (SUBSET RuleUniverse) \X (SUBSET RuleUniverse) : x[2] \subseteq x[1]}}

\* the arguments of a call: description, vendor (empty: none given) and category hint
CategorizeInputs ==
    [description : {<<"Metro", "12">>, <<"Store">>, <<"Transfer">>},
     vendor : {<<>>, <<"metro", "12">>},
     raw_category : {"", "Personal", "Transfers", "food", "Misc"}]

InitCategorize ==
    /\ now = 0
    /\ \E store \in RuleStores :
         db = [expenses |-> {Foreign}, next_expense_id |-> 3,
               categories |-> DEFAULT_CATEGORIES, rules |-> store, next_rule_id |-> 4,
               staging |-> {ForeignBatch}, next_import_id |-> 2, audit |-> <<>>]
    /\ tx = [p \in Procs |-> NoTx]
    /\ pc = [p \in Procs |-> "idle"]
    /\ edit = [p \in Procs |-> NoEdit]
    /\ learn = [p \in Procs |-> NoLearn]
    /\ conf = [p \in Procs |-> NoConf]
    /\ resp = [p \in Procs |-> NoResp]
    /\ used = [requests |-> 0, ticks |-> 0, previews |-> 0, days |-> 0]

\* what a caller gets back from categorize_transaction
Categorized(c) == [category |-> c.category, confidence |-> c.confidence, source |-> c.source]

\* the results categorize_transaction may return for the arguments i
Categorizations(rules, i) ==
    {Categorized(c) : c \in categorize_transaction(rules, Actor, i.description, i.vendor,
                                                   i.raw_category, DEFAULT_CATEGORIES)}

\* a request calls categorize_transaction once; the hit counter of the matched rule is
\* incremented and committed (resolve_learned_category, lines 1367-1371)
Categorize(p) ==
    /\ pc[p] = "idle"
    /\ CanWrite(p)
    /\ StartRequest
    /\ \E i \in CategorizeInputs :
       \E c \in categorize_transaction(db.rules, Actor, i.description, i.vendor, i.raw_category,
                                       db.categories) :
         /\ db' = [db EXCEPT !.rules = IncrementHits(@, c.hit)]
         /\ resp' = [resp EXCEPT ![p] = [kind |-> "categorize", status |-> c.source, import_id |-> 0,
                                         input |-> i, result |-> Categorized(c)]]
    /\ UNCHANGED <<now, tx, pc, edit, learn, conf>>

NextCategorize == \E p \in Procs : Categorize(p)

SpecCategorize == InitCategorize /\ [][NextCategorize]_vars

\* the categories a learned rule of the key type gives for the arguments i
LearnedMatches(rules, key_type, i) ==
    LET value == IF key_type = "description" THEN i.description
                 ELSE IF i.vendor # <<>> THEN i.vendor ELSE derive_vendor(i.description)
        pattern == extract_pattern(value, IF key_type = "vendor" THEN 4 ELSE 3)
    IN  {x.category : x \in resolve_learned_category(rules, Actor, key_type, pattern, DEFAULT_CATEGORIES)}
          \ {""}

\* the first step of the fixed order that matches the arguments i (1..6)
FirstStep(rules, i) ==
    IF is_transfer_transaction(i.description, i.raw_category) THEN 1
    ELSE IF LearnedMatches(rules, "vendor", i) # {} THEN 2
    ELSE IF LearnedMatches(rules, "description", i) # {} THEN 3
    ELSE IF infer_category(i.vendor, i.raw_category, DEFAULT_CATEGORIES) # "" THEN 4
    ELSE IF infer_category(i.description, i.raw_category, DEFAULT_CATEGORIES) # "" THEN 5
    ELSE 6

\* the results step k allows for the arguments i
StepResults(rules, i, k) ==
    CASE k = 1 -> {[category |-> pick_existing_category("Credit Card Payments", DEFAULT_CATEGORIES, "Transfers"),
                    confidence |-> 100, source |-> "transfer"]}
      [] k = 2 -> {[category |-> c, confidence |-> 95, source |-> "learned_vendor"]
                     : c \in LearnedMatches(rules, "vendor", i)}
      [] k = 3 -> {[category |-> c, confidence |-> 90, source |-> "learned_description"]
                     : c \in LearnedMatches(rules, "description", i)}
      [] k = 4 -> {[category |-> infer_category(i.vendor, i.raw_category, DEFAULT_CATEGORIES),
                    confidence |-> 75, source |-> "keyword_vendor"]}
      [] k = 5 -> {[category |-> infer_category(i.description, i.raw_category, DEFAULT_CATEGORIES),
                    confidence |-> 65, source |-> "keyword_description"]}
      [] OTHER -> {[category |-> "", confidence |-> 25, source |-> "unknown"]}

\* C13: categorize_transaction returns the result of the first matching step of the order
\* transfer (100, 'transfer'), learned vendor rule (95, 'learned_vendor'), learned description
\* rule (90, 'learned_description'), keyword heuristic on the vendor (75, 'keyword_vendor'),
\* keyword heuristic on the description (65, 'keyword_description'), else the empty category
\* with (25, 'unknown'); no later step decides when an earlier one matches.
C13_FirstMatchingStepDecides ==
    \A i \in CategorizeInputs :
      /\ Categorizations(db.rules, i) # {}
      /\ Categorizations(db.rules, i) \subseteq StepResults(db.rules, i, FirstStep(db.rules, i))

\* a call was decided by a learned vendor rule although the keyword heuristic on the
\* description suggests another category
C13_Witness ==
    \E p \in Procs :
      /\ resp[p].kind = "categorize" /\ resp[p].status = "learned_vendor"
      /\ infer_category(resp[p].input.description, "", DEFAULT_CATEGORIES)
           \notin {"", resp[p].result.category}

\* C14: categorization is idempotent in its result: with no learn_rule, rule update or rule
\* delete in between, categorizing the arguments of an earlier call again yields the
\* (category, confidence, source) that call returned, although the calls made since (that one
\* included) have incremented hit counters.
C14_CategorizeIdempotent ==
    \A p \in Procs :
      resp[p].kind = "categorize"
      => Categorizations(db.rules, resp[p].input) = {resp[p].result}

\* a call was decided by one of two enabled rules of the same key, whose hit counter it
\* incremented
C14_Witness ==
    \E p \in Procs :
      /\ resp[p].kind = "categorize" /\ resp[p].status = "learned_vendor"
      /\ \E r1, r2 \in db.rules :
           /\ r1.id # r2.id /\ r1.key_type = r2.key_type /\ r1.pattern = r2.pattern
           /\ r1.enabled = 1 /\ r2.enabled = 1
           /\ r1.hits > 0 /\ r1.category = resp[p].result.category

(* ------------------------------------------------------------------ *)
(* learn_rule on its own                                               *)
(* ------------------------------------------------------------------ *)
\* the arguments of a call of learn_rule: description, vendor, category_id, source
LearnInputs ==
    [description : {<<"Metro", "12">>, <<"12">>},
     vendor : {<<>>, <<"metro">>, <<"store">>},
     category_id : {"Groceries", "Transfers", "Misc"},
     source : {"import_override"}]

\* a caller (edit_expense line 1988, import_csv line 2701) calls learn_rule
LearnCall(p) ==
    /\ pc[p] = "idle"
    /\ StartRequest
    /\ \E i \in LearnInputs :
         learn' = [learn EXCEPT ![p] = [NoLearn EXCEPT !.description = i.description, !.vendor = i.vendor,
                                                       !.category_id = i.category_id, !.source = i.source]]
    /\ pc' = [pc EXCEPT ![p] = "learn_read"]
    /\ UNCHANGED <<now, db, tx, edit, conf, resp>>

NextLearn ==
    \E p \in Procs :
      \/ Categorize(p)
      \/ LearnCall(p)
      \/ LearnRead(p)
      \/ LearnWrite(p)

SpecLearn == InitCategorize /\ [][NextLearn]_vars

\* the key the claim gives a call: the vendor pattern (4 words) when it is not empty, else the
\* description pattern (3 words)
UpsertKey(l) ==
    IF extract_pattern(l.vendor, 4) # <<>>
    THEN [key_type |-> "vendor", pattern |-> extract_pattern(l.vendor, 4)]
    ELSE [key_type |-> "description", pattern |-> extract_pattern(l.description, 3)]

\* the rules of the user stored under a key
RulesOfKey(rules, key) ==
    {r \in rules : r.user = Actor /\ r.key_type = key.key_type /\ r.pattern = key.pattern}

ConfirmLines ==
    {[date |-> 1, amount |-> -1000, description |-> <<"METRO", "12">>, category |-> "", paid_by |-> "dk"],
     [date |-> 1, amount |-> -1000, description |-> <<"Metro">>, category |-> "", paid_by |-> "dk"],
     GymLine}

\* a preview of a file of MaxRows lines is staged under import id 2, no rule being stored
InitConfirm ==
    /\ now = 0
    /\ \E file \in [1..MaxRows -> ConfirmLines] :
         \E r \in PreviewRows({}, DEFAULT_CATEGORIES, file, "", 1) :
           db = [expenses |-> {Foreign}, next_expense_id |-> 3,
                 categories |-> DEFAULT_CATEGORIES, rules |-> r.rules, next_rule_id |-> 1,
                 staging |-> {ForeignBatch,
                              [import_id |-> 2, household |-> ActorHousehold, user |-> Actor,
                               created_at |-> 0, rows |-> r.rows]},
                 next_import_id |-> 3, audit |-> <<>>]
    /\ tx = [p \in Procs |-> NoTx]
    /\ pc = [p \in Procs |-> "idle"]
    /\ edit = [p \in Procs |-> NoEdit]
    /\ learn = [p \in Procs |-> NoLearn]
    /\ conf = [p \in Procs |-> NoConf]
    /\ resp = [p \in Procs |-> NoResp]
    /\ used = [requests |-> 0, ticks |-> 0, previews |-> 0, days |-> 0]

NextConfirm ==
    \E p \in Procs :
      \/ ConfirmBegin(p)
      \/ ConfirmRow(p)
      \/ ConfirmEnd(p)

SpecConfirm == InitConfirm /\ [][NextConfirm]_vars

\* the (pattern, category) pair of a rule identity <<vendor pattern, description pattern,
\* category>>: the pattern is the one learn_rule stores the rule under
PairOf(identity) ==
    <<IF identity[1] # <<>> THEN identity[1] ELSE identity[2], identity[3]>>

\* the rules whose stored content (hit counters aside) the step writes
RulesWritten(p) ==
    {r \in db'.rules : \A q \in db.rules : [q EXCEPT !.hits = 0] # [r EXCEPT !.hits = 0]}

LastDate == 4
MonthOf(d) == (d + 1) \div 2
FirstDayOf(m) == 2 * m - 1
PET_CATEGORIES == {"Pet Food & Care", "Pet", "Vet", "Pet Insurance"}

\* SUM(ABS(amount)) over rows
RECURSIVE SumAbs(_)
SumAbs(rows) ==
    IF rows = {} THEN 0
    ELSE LET r == CHOOSE r \in rows : TRUE
         IN  (IF r.amount < 0 THEN -r.amount ELSE r.amount) + SumAbs(rows \ {r})

\* the date conditions of lines 1010-1019 and 1074-1083; a period of a month is e.date LIKE 'month%'
InDates(d, start_date, end_date, before_date) ==
    IF before_date # 0 THEN d < before_date
    ELSE (start_date # 0 => d >= start_date) /\ (end_date # 0 => d <= end_date)

\* COALESCE(c.name, '') IN PET_CATEGORIES, under the LEFT JOIN on the category id
IsPet(e, categories) == e.category_id \in categories /\ e.category_id \in PET_CATEGORIES

\* a shared delta with the sign turned round
SharedDeltaReversed(dk_paid_shared, each_share) == each_share - dk_paid_shared

\* line 1053: round(dk_paid_shared - each_share, 2)
SharedDelta(dk_paid_shared, each_share) == dk_paid_shared - each_share

\* a pet delta that splits pet spending 50/50 like shared spending
PetDeltaSplit(pet_paid_by_dk, pet_paid_by_yz) == (pet_paid_by_dk - pet_paid_by_yz) \div 2

\* line 1056: round(pet_paid_by_dk, 2)
PetDelta(pet_paid_by_dk, pet_paid_by_yz) == pet_paid_by_dk

\* a net delta that leaves pet spending out
PeriodNetDeltaSharedOnly(shared_delta, pet_delta) == shared_delta

\* line 1067: round(shared_delta + pet_delta, 2)
PeriodNetDelta(shared_delta, pet_delta) == shared_delta + pet_delta

\* lines 1021-1069, and 1140-1172, over the rows the WHERE clause keeps
SettlementTotals(rows, categories) ==
    LET shared == {e \in rows : ~IsPet(e, categories)}
        pets == rows \ shared
        dk_paid_shared == SumAbs({e \in shared : e.paid_by = "DK"})
        total_shared == SumAbs(shared)
        each_share == total_shared \div 2
        shared_delta == SharedDelta(dk_paid_shared, each_share)
        pet_paid_by_dk == SumAbs({e \in pets : e.paid_by = "DK"})
        pet_paid_by_yz == SumAbs({e \in pets : e.paid_by = "YZ"})
        pet_delta == PetDelta(pet_paid_by_dk, pet_paid_by_yz)
    IN  [dk_paid_shared |-> dk_paid_shared,
         yz_paid_shared |-> SumAbs({e \in shared : e.paid_by = "YZ"}),
         total_shared |-> total_shared, each_share |-> each_share, shared_delta |-> shared_delta,
         pet_paid_by_dk |-> pet_paid_by_dk, pet_paid_by_yz |-> pet_paid_by_yz, pet_delta |-> pet_delta,
         period_net_delta |-> PeriodNetDelta(shared_delta, pet_delta),
         total_settlement_expenses |-> SumAbs(rows)]

\* the rows of the WHERE clause of line 1008: of the household, no transfer, not personal, spending
Settleable(expenses) ==
    {e \in expenses : e.household = ActorHousehold /\ e.is_transfer = 0 /\ e.is_personal = 0 /\ e.amount < 0}

_fetch_settlement_expense_totals(d, start_date, end_date, before_date) ==
    SettlementTotals({e \in Settleable(d.expenses) : InDates(e.date, start_date, end_date, before_date)},
                     d.categories)

_fetch_settlement_expense_totals_like_month(d, month) ==
    SettlementTotals({e \in Settleable(d.expenses) : MonthOf(e.date) = month}, d.categories)

\* lines 1085-1101 and 1175-1187 over the repayments the WHERE clause keeps
RepaymentTotals(rows) ==
    LET dk_to_yz == SumAbs({r \in rows : r.from_person = "DK" /\ r.to_person = "YZ"})
        yz_to_dk == SumAbs({r \in rows : r.from_person = "YZ" /\ r.to_person = "DK"})
    IN  [repayments_dk_to_yz |-> dk_to_yz, repayments_yz_to_dk |-> yz_to_dk,
         repayment_effect |-> dk_to_yz - yz_to_dk]

_fetch_repayment_totals(d, start_date, end_date, before_date) ==
    RepaymentTotals({r \in d.payments : r.household = ActorHousehold
                                        /\ InDates(r.date, start_date, end_date, before_date)})

_fetch_repayments_for_month(d, month) ==
    RepaymentTotals({r \in d.payments : r.household = ActorHousehold /\ MonthOf(r.date) = month})

\* the arguments of GET /dashboard: month, start, end (0: not given)
DashboardArgs == [month : {0, 2}, start : {0, 3}, end : {0, 2, 4}]

\* resolve_dashboard_filters(request.args), default_to_current_month = True
resolve_dashboard_filters(args) ==
    LET swap == args.start # 0 /\ args.end # 0 /\ args.start > args.end
        start_date == IF swap THEN args.end ELSE args.start
        end_date == IF swap THEN args.start ELSE args.end
        month == IF args.month # 0 /\ (start_date # 0 \/ end_date # 0) THEN 0 ELSE args.month
    IN  [selected_month |-> IF start_date # 0 /\ end_date # 0 THEN month
                            ELSE IF month # 0 THEN month
                            ELSE MonthOf(LastDate),
         start_date |-> start_date, end_date |-> end_date]

get_period_start_for_opening(filters) ==
    IF filters.start_date # 0 THEN filters.start_date
    ELSE IF filters.selected_month # 0 THEN FirstDayOf(filters.selected_month)
    ELSE 0

calculate_settlement_ledger(d, filters) ==
    LET of_month == filters.selected_month # 0 /\ filters.start_date = 0 /\ filters.end_date = 0
        period == IF of_month
                  THEN _fetch_settlement_expense_totals_like_month(d, filters.selected_month)
                  ELSE _fetch_settlement_expense_totals(d, filters.start_date, filters.end_date, 0)
        repayments_period ==
            IF of_month THEN _fetch_repayments_for_month(d, filters.selected_month)
            ELSE _fetch_repayment_totals(d, filters.start_date, filters.end_date, 0)
        opening_cutoff == get_period_start_for_opening(filters)
        opening_balance ==
            IF opening_cutoff # 0
            THEN _fetch_settlement_expense_totals(d, 0, 0, opening_cutoff).period_net_delta
                 + _fetch_repayment_totals(d, 0, 0, opening_cutoff).repayment_effect
            ELSE 0
        closing_balance == opening_balance + period.period_net_delta + repayments_period.repayment_effect
    IN  [period |-> period, repayments |-> repayments_period,
         opening_balance |-> opening_balance, closing_balance |-> closing_balance,
         dk_owes_now |-> IF -closing_balance > 0 THEN -closing_balance ELSE 0,
         yz_owes_now |-> IF closing_balance > 0 THEN closing_balance ELSE 0]

\* lines 1189-1248: the months of the period that have a qualifying transaction, in ascending
\* order, each with its totals, its repayments and the running balance after it
build_monthly_breakdown(d, filters, opening_balance) ==
    LET qualifying == Settleable(d.expenses)
        months ==
            IF filters.start_date # 0 /\ filters.end_date # 0
            THEN {MonthOf(e.date) : e \in {x \in qualifying : /\ x.date >= filters.start_date
                                                               /\ x.date <= filters.end_date}}
            ELSE IF filters.selected_month # 0
            THEN {MonthOf(e.date) : e \in {x \in qualifying : MonthOf(x.date) = filters.selected_month}}
            ELSE {}
        RECURSIVE rows_from(_, _)
        rows_from(month, running) ==
            IF month > MonthOf(LastDate) THEN <<>>
            ELSE IF month \notin months THEN rows_from(month + 1, running)
            ELSE LET expense == _fetch_settlement_expense_totals_like_month(d, month)
                     repayments == _fetch_repayments_for_month(d, month)
                     month_net_delta == expense.period_net_delta
                     after == running + month_net_delta + repayments.repayment_effect
                 IN  <<[month |-> month,
                        total_expenses |-> expense.total_settlement_expenses,
                        dk_owes |-> IF month_net_delta < 0 THEN -month_net_delta ELSE 0,
                        yz_owes |-> IF month_net_delta > 0 THEN month_net_delta ELSE 0,
                        repayments_dk_to_yz |-> repayments.repayments_dk_to_yz,
                        repayments_yz_to_dk |-> repayments.repayments_yz_to_dk,
                        net_delta |-> month_net_delta,
                        running_balance |-> after]>> \o rows_from(month + 1, after)
    IN  rows_from(1, opening_balance)

\* the "Result:" line of the dashboard: who owes whom how many cents
SettlementResult(ledger) ==
    IF ledger.yz_owes_now > 0 THEN [text |-> "YZ owes DK", amount |-> ledger.yz_owes_now]
    ELSE IF ledger.dk_owes_now > 0 THEN [text |-> "DK owes YZ", amount |-> ledger.dk_owes_now]
    ELSE [text |-> "Settled", amount |-> 0]

\* an expense of the household as create_expense stores it
SettleExpense(id, date, amount, category_id, paid_by) ==
    [id |-> id, user |-> Actor, household |-> ActorHousehold, date |-> date, amount |-> amount,
     category_id |-> category_id, description |-> <<"Store">>, vendor |-> <<"store">>, paid_by |-> paid_by,
     is_transfer |-> 0, is_personal |-> IF category_id = "Personal" THEN 1 ELSE 0, updated_at |-> 0]

\* the expenses the household may have entered before
EarlierExpenses ==
    {SettleExpense(2, 3, -7000, "Groceries", "DK"),
     SettleExpense(3, 3, -13000, "Groceries", "YZ"),
     SettleExpense(4, 4, -10000, "Pet Food & Care", "DK"),
     SettleExpense(5, 3, -6000, "Pet Food & Care", "YZ"),
     SettleExpense(6, 1, -4000, "Groceries", "DK"),
     SettleExpense(7, 3, -2000, "Personal", "DK"),
     SettleExpense(8, 3, -2000, "Groceries", "")}

\* a repayment as create_settlement_payment stores it
Payment(id, household, date, from_person, to_person, amount) ==
    [id |-> id, household |-> household, date |-> date, from_person |-> from_person,
     to_person |-> to_person, amount |-> amount]

InitSettle ==
    /\ now = 0
    /\ \E entered \in SUBSET EarlierExpenses :
         db = [expenses |-> {Foreign} \cup entered, next_expense_id |-> 9,
               categories |-> DEFAULT_CATEGORIES \cup {"Pet Food & Care"}, rules |-> {}, next_rule_id |-> 1,
               staging |-> {}, next_import_id |-> 1, audit |-> <<>>,
               payments |-> {Payment(1, OtherHousehold, 3, "DK", "YZ", 5000)}, next_payment_id |-> 2]
    /\ tx = [p \in Procs |-> NoTx]
    /\ pc = [p \in Procs |-> "idle"]
    /\ edit = [p \in Procs |-> NoEdit]
    /\ learn = [p \in Procs |-> NoLearn]
    /\ conf = [p \in Procs |-> NoConf]
    /\ resp = [p \in Procs |-> NoResp]
    /\ used = [requests |-> 0, ticks |-> 0, previews |-> 0, days |-> 0]

\* POST /settlement-payments
create_settlement_payment(p) ==
    /\ pc[p] = "idle"
    /\ CanWrite(p)
    /\ StartRequest
    /\ \E payment_date \in {0, 1, 3}, raw_from \in {"dk", "YZ", ""}, raw_to \in {"DK", "yz"},
          amount \in {0, 2000} :
        LET from_person == normalize_paid_by(raw_from)
            to_person == normalize_paid_by(raw_to)
        IN  IF \/ payment_date = 0
               \/ from_person \notin {"DK", "YZ"} \/ to_person \notin {"DK", "YZ"}
               \/ from_person = to_person
               \/ amount <= 0
            THEN /\ resp' = [resp EXCEPT ![p] = Resp("payment", "rejected", 0)]
                 /\ UNCHANGED db
            ELSE /\ db' = [db EXCEPT
                             !.payments = @ \cup {Payment(db.next_payment_id, ActorHousehold, payment_date,
                                                          from_person, to_person, amount)},
                             !.next_payment_id = @ + 1]
                 /\ resp' = [resp EXCEPT ![p] = Resp("payment", "recorded", 0)]
    /\ UNCHANGED <<now, tx, pc, edit, learn, conf>>

\* POST /settlement-payments/<id>/delete
delete_settlement_payment(p) ==
    /\ pc[p] = "idle"
    /\ CanWrite(p)
    /\ StartRequest
    /\ \E payment_id \in 1..(db.next_payment_id - 1) :
         db' = [db EXCEPT !.payments = {r \in @ : ~(r.id = payment_id /\ r.household = ActorHousehold)}]
    /\ resp' = [resp EXCEPT ![p] = Resp("payment", "deleted", 0)]
    /\ UNCHANGED <<now, tx, pc, edit, learn, conf>>

\* GET /dashboard: the settlement part of the page
Dashboard(p) ==
    /\ pc[p] = "idle"
    /\ StartRequest
    /\ \E args \in DashboardArgs :
         LET filters == resolve_dashboard_filters(args)
             settlement == calculate_settlement_ledger(db, filters)
         IN  resp' = [resp EXCEPT ![p] =
                        [kind |-> "dashboard", status |-> SettlementResult(settlement).text, import_id |-> 0,
                         args |-> args, settlement |-> settlement,
                         monthly_breakdown |->
                             build_monthly_breakdown(db, filters, settlement.opening_balance)]]
    /\ UNCHANGED <<now, db, tx, pc, edit, learn, conf>>

NextSettle ==
    \E p \in Procs :
      \/ create_settlement_payment(p)
      \/ delete_settlement_payment(p)
      \/ Dashboard(p)

SpecSettle == InitSettle /\ [][NextSettle]_vars

(* ------------------------------------------------------------------ *)
(* Properties of the settlement ledger                                 *)
(* ------------------------------------------------------------------ *)
\* the first day of the period the filters select, 0 when the period has no first day
PeriodStart(filters) ==
    IF filters.start_date # 0 THEN filters.start_date
    ELSE IF filters.end_date = 0 /\ filters.selected_month # 0 THEN FirstDayOf(filters.selected_month)
    ELSE 0

\* C17: for every period, the closing balance is the opening balance plus the net delta of
\* the period plus the repayment effect of the period; the opening balance is the same
\* computation over the transactions and repayments dated strictly before the period's
\* start, and 0 when the period has no start; a positive closing balance is reported as YZ
\* owing DK that amount, a negative one as DK owing YZ, never both.
C17_ClosingFromOpening ==
    \A args \in DashboardArgs :
      LET filters == resolve_dashboard_filters(args)
          ledger == calculate_settlement_ledger(db, filters)
          start == PeriodStart(filters)
      IN  /\ ledger.closing_balance = ledger.opening_balance + ledger.period.period_net_delta
                                      + ledger.repayments.repayment_effect
          /\ ledger.opening_balance =
               IF start = 0 THEN 0
               ELSE _fetch_settlement_expense_totals(db, 0, 0, start).period_net_delta
                    + _fetch_repayment_totals(db, 0, 0, start).repayment_effect
          /\ ~(ledger.dk_owes_now > 0 /\ ledger.yz_owes_now > 0)
          /\ ledger.closing_balance > 0
             => SettlementResult(ledger) = [text |-> "YZ owes DK", amount |-> ledger.closing_balance]
          /\ ledger.closing_balance < 0
             => SettlementResult(ledger) = [text |-> "DK owes YZ", amount |-> -ledger.closing_balance]

\* the period of the ledger holds DK 70 and YZ 130 of shared spending and the given pet
\* spending of DK, with no repayment and a zero opening balance
Fixture(ledger, pet_paid_by_dk) ==
    /\ ledger.period.dk_paid_shared = 7000 /\ ledger.period.yz_paid_shared = 13000
    /\ ledger.period.total_shared = 20000
    /\ ledger.period.pet_paid_by_dk = pet_paid_by_dk
    /\ ledger.repayments.repayments_dk_to_yz = 0 /\ ledger.repayments.repayments_yz_to_dk = 0
    /\ ledger.opening_balance = 0

\* C18: the net delta of a period is the shared delta plus the pet delta: what DK paid of
\* the shared spending minus half of the shared spending, plus what DK paid of the pet
\* spending; with DK 70 and YZ 130 shared, 100 of pet spending paid by DK, no repayments and
\* no earlier history, the result is "YZ owes DK $70.00".
C18_NetDeltaIsSharedPlusPet ==
    \A args \in DashboardArgs :
      LET ledger == calculate_settlement_ledger(db, resolve_dashboard_filters(args))
          t == ledger.period
      IN  /\ t.period_net_delta = (t.dk_paid_shared - t.total_shared \div 2) + t.pet_paid_by_dk
          /\ Fixture(ledger, 10000)
             => SettlementResult(ledger) = [text |-> "YZ owes DK", amount |-> 7000]

\* the dashboard has shown "YZ owes DK $70.00" for the fixture of C18
C18_Witness ==
    \E p \in Procs :
      /\ resp[p].kind = "dashboard"
      /\ Fixture(resp[p].settlement, 10000)
      /\ resp[p].status = "YZ owes DK" /\ resp[p].settlement.yz_owes_now = 7000

\* C19, as the specification states it: with DK 70 and YZ 130 of shared spending, no pet
\* spending, no repayments and a zero opening balance, the result is "YZ owes DK $30.00".
C19_YZOwesDK30 ==
    \A args \in DashboardArgs :
      LET ledger == calculate_settlement_ledger(db, resolve_dashboard_filters(args))
      IN  Fixture(ledger, 0) => SettlementResult(ledger) = [text |-> "YZ owes DK", amount |-> 3000]

\* C19: with DK 70 and YZ 130 of shared spending, no pet spending, no repayments and a zero
\* opening balance, each share is 100, DK has paid 30 less than that share, and the result
\* is "DK owes YZ $30.00".
C19_DKOwesYZ30 ==
    \A args \in DashboardArgs :
      LET ledger == calculate_settlement_ledger(db, resolve_dashboard_filters(args))
      IN  Fixture(ledger, 0)
          => /\ ledger.closing_balance = -3000
             /\ SettlementResult(ledger) = [text |-> "DK owes YZ", amount |-> 3000]

\* the dashboard has shown "DK owes YZ $30.00" for the fixture of C19
C19_Witness ==
    \E p \in Procs :
      /\ resp[p].kind = "dashboard"
      /\ Fixture(resp[p].settlement, 0)
      /\ resp[p].status = "DK owes YZ" /\ resp[p].settlement.dk_owes_now = 3000

\* the store without one expense
WithoutExpense(d, e) == [d EXCEPT !.expenses = @ \ {e}]

\* the expense is one of the period the filters select
InPeriod(e, filters) ==
    IF filters.selected_month # 0 /\ filters.start_date = 0 /\ filters.end_date = 0
    THEN MonthOf(e.date) = filters.selected_month
    ELSE InDates(e.date, filters.start_date, filters.end_date, 0)

\* C20: a pet expense paid by DK is never split: whatever the other spending of the period,
\* it adds its full amount to the net delta of the period, that is to what YZ owes DK, and
\* leaves each party's share of the shared spending as it is; a pet expense paid by YZ
\* changes neither.
C20_PetPaidInFull ==
    \A e \in Settleable(db.expenses) :
      (IsPet(e, db.categories) /\ e.paid_by \in {"DK", "YZ"})
      => \A args \in DashboardArgs :
           LET filters == resolve_dashboard_filters(args)
               with == calculate_settlement_ledger(db, filters).period
               without == calculate_settlement_ledger(WithoutExpense(db, e), filters).period
           IN  InPeriod(e, filters)
               => /\ with.period_net_delta - without.period_net_delta
                       = IF e.paid_by = "DK" THEN -e.amount ELSE 0
                  /\ with.each_share = without.each_share
                  /\ with.shared_delta = without.shared_delta

\* the dashboard has shown a period with shared spending and pet spending of both parties,
\* in which YZ owes DK
C20_Witness ==
    \E p \in Procs :
      /\ resp[p].kind = "dashboard"
      /\ resp[p].settlement.period.pet_paid_by_dk > 0
      /\ resp[p].settlement.period.pet_paid_by_yz > 0
      /\ resp[p].settlement.period.total_shared > 0
      /\ resp[p].status = "YZ owes DK"

\* C21: a spending row with a blank paid_by is left out of the settlement sums: with the row
\* or without it, each party's share, the net delta of the period and the closing balance
\* are the same, and the row is attributed to no payer.
C21_BlankPayerLeftOut ==
    \A e \in Settleable(db.expenses) :
      e.paid_by = ""
      => \A args \in DashboardArgs :
           LET filters == resolve_dashboard_filters(args)
               with == calculate_settlement_ledger(db, filters)
               without == calculate_settlement_ledger(WithoutExpense(db, e), filters)
           IN  /\ with.period.dk_paid_shared = without.period.dk_paid_shared
               /\ with.period.yz_paid_shared = without.period.yz_paid_shared
               /\ with.period.each_share = without.period.each_share
               /\ with.period.period_net_delta = without.period.period_net_delta
               /\ with.closing_balance = without.closing_balance

\* C22: the settlement sums cover only spending that is no transfer, not Personal and not
\* Credit Card Payments: a transaction whose category is 'Personal' or 'Credit Card
\* Payments', or whose transfer flag is set, adds to none of the sums of what DK paid, what
\* YZ paid, the shared total and the pet spending.
C22_ExcludedFromSums ==
    \A e \in db.expenses :
      (e.category_id \in {"Personal", "Credit Card Payments"} \/ e.is_transfer = 1)
      => LET with == _fetch_settlement_expense_totals(db, 0, 0, 0)
             without == _fetch_settlement_expense_totals(WithoutExpense(db, e), 0, 0, 0)
         IN  /\ with.dk_paid_shared = without.dk_paid_shared
             /\ with.yz_paid_shared = without.yz_paid_shared
             /\ with.total_shared = without.total_shared
             /\ with.pet_paid_by_dk = without.pet_paid_by_dk
             /\ with.pet_paid_by_yz = without.pet_paid_by_yz

\* C23: given the categories the user has, pick_existing_category, infer_category and
\* categorize_transaction return the empty category or one of these categories, for every
\* description, vendor and category hint, be the hint recognized, legacy or unrecognized.
C23_ResultsAreAvailable ==
    \A i \in CategorizeInputs :
      LET available == db.categories \cup {""}
      IN  /\ pick_existing_category(i.raw_category, db.categories, "") \in available
          /\ infer_category(i.description, i.raw_category, db.categories) \in available
          /\ \A c \in categorize_transaction(db.rules, Actor, i.description, i.vendor, i.raw_category,
                                             db.categories) : c.category \in available

(* ------------------------------------------------------------------ *)
(* import_csv: the column mapping of a preview                         *)
(* ------------------------------------------------------------------ *)
\* What a preview request brings for two of the fields of the mapping: the form value of the
\* field ("<absent>": the form has no such field), the column detect_header_and_mapping
\* found for it ("": none; columns are named by their index), the signature of the uploaded
\* file, and the mapping payload of the session cookie with the signature it was saved under.
MappingFields == {"date", "amount"}
MappingInputs ==
    [form : [MappingFields -> {"<absent>", "", "1"}],
     inferred : [MappingFields -> {"", "0"}],
     file_signature : {"s1"},
     saved : [file_signature : {"s1", "s2"}, mapping : [MappingFields -> {"", "2"}]]]

\* get_saved_csv_mapping_for_user, then mapping_from_payload
get_saved_csv_mapping_for_user(payload, file_signature) ==
    IF file_signature = "" \/ payload.file_signature = file_signature
    THEN payload.mapping
    ELSE [f \in MappingFields |-> ""]

\* lines 2779-2792: the mapping of the preview when no Amex or CIBC mapping applies
ResolveMapping(form, inferred_mapping, saved_mapping) ==
    [f \in MappingFields |->
       LET chosen == IF form[f] # "<absent>" THEN form[f] ELSE inferred_mapping[f]
       IN  IF chosen = "" /\ saved_mapping[f] # "" THEN saved_mapping[f] ELSE chosen]

\* POST /import/csv, action = preview: the mapping the upload is parsed with
PreviewMapping(p) ==
    /\ pc[p] = "idle"
    /\ StartRequest
    /\ \E i \in MappingInputs :
         resp' = [resp EXCEPT ![p] =
                    [kind |-> "mapping", status |-> "resolved", import_id |-> 0, input |-> i,
                     mapping |-> ResolveMapping(i.form, i.inferred,
                                                get_saved_csv_mapping_for_user(i.saved, i.file_signature))]]
    /\ UNCHANGED <<now, db, tx, pc, edit, learn, conf>>

SpecMapping == Init /\ [][\E p \in Procs : PreviewMapping(p)]_vars

\* C24: when the mapping of a preview is resolved, each field takes the column found by
\* auto-detection, else the column the caller supplied, else the column of the saved mapping
\* whose file signature matches; a supplied or saved column is used only for a field that
\* auto-detection left unmapped.
C24_AutoDetectionFirst ==
    \A p \in Procs :
      resp[p].kind = "mapping"
      => \A f \in MappingFields :
           LET i == resp[p].input
           IN  resp[p].mapping[f] =
                 IF i.inferred[f] # "" THEN i.inferred[f]
                 ELSE IF i.form[f] \notin {"<absent>", ""} THEN i.form[f]
                 ELSE IF i.saved.file_signature = i.file_signature THEN i.saved.mapping[f]
                 ELSE ""

(* ------------------------------------------------------------------ *)
(* Concurrent confirms of one import id                                *)
(* ------------------------------------------------------------------ *)

\* the persisted transactions of the household a staged row is a dedup match of
PersistedFrom(expenses, row) ==
    {e \in expenses : /\ e.household = ActorHousehold /\ e.date = row.date /\ e.amount = row.amount
                      /\ normalize_description(e.description) = row.normalized_description}

\* the staged rows of a batch that are the same row to the dedup check
SameRows(rows, row) ==
    {j \in DOMAIN rows : /\ rows[j].date = row.date /\ rows[j].amount = row.amount
                         /\ rows[j].normalized_description = row.normalized_description}

\* C25: confirm requests of one import id, however their reads of the staging rows, dedup
\* checks, inserts, staging delete and commit interleave, never import a staged row twice:
\* after every step, the persisted transactions that match a staged row of a running confirm
\* are at most as many as the staged rows they can come from.
C25_StagedRowImportedOnce ==
    [][\A p \in Procs :
         conf[p] # NoConf =>
           \A i \in DOMAIN conf[p].rows :
             Cardinality(PersistedFrom(db'.expenses, conf[p].rows[i]))
               <= Cardinality(SameRows(conf[p].rows, conf[p].rows[i]))]_vars

\* the second of two equal rows of one batch is skipped by the confirm that inserted the first
InBatchSkip ==
    \A p \in Procs :
      (/\ ConfirmRowStep(p) /\ pc[p] = "confirm_row" /\ conf'[p] # NoConf
       /\ \E e \in PersistedFrom(View(p).expenses, conf[p].rows[conf[p].index]) : e.id \in conf[p].inserted)
      => (/\ conf'[p].skipped_count = conf[p].skipped_count + 1
          /\ conf'[p].imported_count = conf[p].imported_count
          /\ db'.expenses = db.expenses)

\* no two persisted transactions of the household are equal in date, amount and normalized
\* description
NoTwins(expenses) ==
    \A e1, e2 \in expenses :
      (/\ e1.id # e2.id /\ e1.household = ActorHousehold /\ e2.household = ActorHousehold
       /\ e1.date = e2.date /\ e1.amount = e2.amount)
      => normalize_description(e1.description) # normalize_description(e2.description)

\* C26: dedup also applies inside one batch: of two rows of a batch with equal date, amount
\* and normalized description confirm inserts the first and counts the second as skipped,
\* and two transactions of one household with equal date, amount and normalized description
\* are never both created by import.
C26_NoTwinsByImport == [][InBatchSkip /\ NoTwins(db'.expenses)]_vars

(* ------------------------------------------------------------------ *)
(* An edit that submits no updated_at                                  *)
(* ------------------------------------------------------------------ *)
\* the UPDATE step of p has stored the submitted values and the request goes on as an edit made
BlankEditApplied(p) ==
    /\ resp'[p].status # "reload"
    /\ \E x \in HouseholdExpenses(db', edit[p].id) :
         /\ x.description = edit[p].description /\ x.amount = edit[p].amount
         /\ x.category_id = edit[p].category_id /\ x.updated_at = now
    /\ Len(db'.audit) = Len(db.audit) + 1

category_name(category_id) ==
    CASE category_id = "Personal (u3)" -> "Personal"
      [] category_id = "Transfers (u3)" -> "Transfers"
      [] OTHER -> category_id

\* bulk_expense_action with action = set_category, lines 2120-2138, requested by the other
\* member of the household: the category is one of the requester's own, the transactions are
\* the household's
bulk_set_category_by_member(p) ==
    /\ pc[p] = "idle"
    /\ CanWrite(p)
    /\ StartRequest
    /\ \E ids \in Selections(db.expenses), category_id \in {"Personal (u3)", "Transfers (u3)"} :
         IF ~OwnsAll(db.expenses, ids)
         THEN /\ resp' = [resp EXCEPT ![p] = Resp("bulk", "invalid", 0)]
              /\ UNCHANGED db
         ELSE /\ db' = [db EXCEPT !.expenses = BulkUpdated(@, ids, "category_id", category_id)]
              /\ resp' = [resp EXCEPT ![p] = Resp("bulk", "updated", 0)]
    /\ UNCHANGED <<now, tx, pc, edit, learn, conf>>

\* ensure_default_categories(user_id) for Actor, lines 1459-1504: the seed categories are
\* added, a category with a legacy name is merged into its seed category, and the flags of
\* Actor's transactions are set from their category ids
ensure_default_categories(d) ==
    LET existing == d.categories
        lookup == existing \cup DEFAULT_CATEGORIES
        legacy == {c \in existing : /\ normalize_name(c) \in {"food", "transfer"}
                                    /\ LEGACY_CATEGORY_MAPPING(normalize_name(c)) \in lookup
                                    /\ LEGACY_CATEGORY_MAPPING(normalize_name(c)) # c}
        moved(e) == IF e.user = Actor /\ e.category_id \in legacy
                    THEN [e EXCEPT !.category_id = LEGACY_CATEGORY_MAPPING(normalize_name(@))]
                    ELSE e
        categories == lookup \ legacy
        flagged(e) == IF e.user = Actor
                      THEN [e EXCEPT
                              !.is_personal = IF e.category_id # "" /\ e.category_id \in categories \cap {"Personal"}
                                              THEN 1 ELSE 0,
                              !.is_transfer = IF e.category_id # "" /\ e.category_id \in categories \cap {"Transfers", "Credit Card Payments"}
                                              THEN 1 ELSE 0]
                      ELSE e
    IN  [d EXCEPT !.categories = categories,
                  !.expenses = {flagged(moved(e)) : e \in @}]

\* POST /login with Actor's name and password, lines 1545-1559
Login(p) ==
    /\ pc[p] = "idle"
    /\ CanWrite(p)
    /\ StartRequest
    /\ db' = ensure_default_categories(db)
    /\ resp' = [resp EXCEPT ![p] = Resp("login", "ok", 0)]
    /\ UNCHANGED <<now, tx, pc, edit, learn, conf>>

NextLogin ==
    \E p \in Procs :
      \/ CreateExpense(p)
      \/ bulk_set_category(p)
      \/ bulk_set_transfer(p)
      \/ bulk_set_category_by_member(p)
      \/ Login(p)

SpecLogin == Init /\ [][NextLogin]_vars

\* p takes the step of a login
LoginStep(p) ==
    pc[p] = "idle" /\ used' # used /\ resp' = [resp EXCEPT ![p] = Resp("login", "ok", 0)]

\* C28: every login of a user recomputes the flags of all of that user's transactions from
\* their category alone: afterwards is_personal = 1 exactly for category 'Personal' and
\* is_transfer = 1 exactly for categories 'Transfers' and 'Credit Card Payments', so that a
\* transfer flag set by bulk set_transfer or by keyword detection on an uncategorized
\* transaction does not survive the owner's next login.
C28_LoginRecomputesFlags ==
    [][\A p \in Procs :
         LoginStep(p)
         => \A e \in db'.expenses :
              e.user = Actor =>
                /\ (e.is_personal = 1) <=> (category_name(e.category_id) = "Personal")
                /\ (e.is_transfer = 1)
                     <=> (category_name(e.category_id) \in {"Transfers", "Credit Card Payments"})]_vars

(* ------------------------------------------------------------------ *)
(* The monthly breakdown of the dashboard                              *)
(* ------------------------------------------------------------------ *)
\* C29: for a requested month, or a requested range with a start and an end date, the monthly
\* breakdown accounts for every qualifying transaction and every repayment of the period
\* exactly once: the running balance of its last month is the closing balance of the ledger of
\* the same request, and when the breakdown has no month the closing balance is the opening
\* balance.
C29_BreakdownReachesClosing ==
    \A p \in Procs :
      (/\ resp[p].kind = "dashboard"
       /\ \/ resp[p].args.month # 0 /\ resp[p].args.start = 0 /\ resp[p].args.end = 0
          \/ resp[p].args.start # 0 /\ resp[p].args.end # 0)
      => LET rows == resp[p].monthly_breakdown
             settlement == resp[p].settlement
         IN  IF rows = <<>>
             THEN settlement.closing_balance = settlement.opening_balance
             ELSE rows[Len(rows)].running_balance = settlement.closing_balance

(* ------------------------------------------------------------------ *)
(* apply_migrations (src/expense_tracker/db_migrations.py)             *)
(* ------------------------------------------------------------------ *)
\* The database is here [backend, schema_version, schema]: schema_version is the set of the
\* versions recorded, schema the set of the changes <<version, statement>> the statements of
\* the migrations have made.  conf[p] holds the locals of _run_migrations on connection p.
\* A statement is a schema statement ("ddl": CREATE TABLE, ALTER TABLE, CREATE INDEX, DROP
\* TABLE) or a data statement ("dml": INSERT, UPDATE).

\* MIGRATIONS, lines 612-620: the statements of migration_001 .. migration_007 in their order
MIGRATIONS ==
    << <<"ddl", "ddl">>,
       <<"ddl", "dml", "ddl", "dml">>,
       <<"dml", "ddl">>,
       <<"ddl", "dml", "ddl", "ddl">>,
       <<"ddl", "ddl">>,
       <<"ddl", "ddl">>,
       <<"ddl">> >>

\* inspect_db_health: what the schema lacks of what the migrations make; ok when nothing
inspect_db_health(d) ==
    LET missing == {c \in UNION {{<<v, i>> : i \in DOMAIN MIGRATIONS[v]} : v \in DOMAIN MIGRATIONS} :
                      c \notin d.schema}
    IN  [ok |-> missing = {}, missing |-> missing,
         schema_version |-> IF d.schema_version = {} THEN 0
                            ELSE CHOOSE v \in d.schema_version : \A w \in d.schema_version : w <= v]

\* a database some first migrations have been applied to, on either backend
InitMigrate ==
    /\ now = 0
    /\ \E backend \in {"sqlite", "postgres"}, upto \in 0..Len(MIGRATIONS) :
         db = [backend |-> backend, schema_version |-> 1..upto,
               schema |-> UNION {{<<v, i>> : i \in DOMAIN MIGRATIONS[v]} : v \in 1..upto}]
    /\ tx = [p \in Procs |-> NoTx]
    /\ pc = [p \in Procs |-> "idle"]
    /\ edit = [p \in Procs |-> NoEdit]
    /\ learn = [p \in Procs |-> NoLearn]
    /\ conf = [p \in Procs |-> NoConf]
    /\ resp = [p \in Procs |-> NoResp]
    /\ used = [requests |-> 0, ticks |-> 0, previews |-> 0, days |-> 0]

\* apply_migrations, lines 673-683, and lines 649-654 of _run_migrations: the connection is
\* opened and the applied versions are read; one run at a time
apply_migrations(p) ==
    /\ \A q \in Procs : pc[q] = "idle"
    /\ StartRequest
    /\ pc' = [pc EXCEPT ![p] = "run_migrations"]
    /\ conf' = [conf EXCEPT ![p] = [applied_versions |-> db.schema_version, version |-> 0, statement |-> 0,
                                    started |-> <<>>, before |-> db.schema]]
    /\ resp' = [resp EXCEPT ![p] = NoResp]
    /\ UNCHANGED <<now, db, tx, edit, learn>>

\* one step of the loop of lines 656-668: the next migration is entered, or its next statement
\* is executed or fails, or its version is recorded and committed; after the last migration
\* validate_required_schema checks the schema
_run_migrations(p) ==
    /\ pc[p] = "run_migrations"
    /\ LET c == conf[p]
           pending == {v \in DOMAIN MIGRATIONS : v > c.version /\ v \notin c.applied_versions}
           in_migration == c.version # 0 /\ c.statement <= Len(MIGRATIONS[c.version]) + 1
           view == View(p)
       IN
       IF ~in_migration
       THEN IF pending = {}
            THEN \* lines 670: validate_required_schema
                 /\ resp' = [resp EXCEPT ![p] =
                       Resp("migrate", IF inspect_db_health(db).ok THEN "ok" ELSE "schema_invalid", 0)]
                 /\ pc' = [pc EXCEPT ![p] = "idle"]
                 /\ conf' = [conf EXCEPT ![p] = NoConf]
                 /\ UNCHANGED <<db, tx>>
            ELSE LET version == CHOOSE v \in pending : \A w \in pending : v <= w
                 IN  /\ conf' = [conf EXCEPT ![p] = [c EXCEPT !.version = version, !.statement = 1,
                                                              !.started = Append(@, version),
                                                              !.before = db.schema]]
                     /\ UNCHANGED <<db, tx, pc, resp>>
       ELSE
         \/ \* the statement raises: conn.rollback() and raise, lines 666-668
            /\ tx' = [tx EXCEPT ![p] = NoTx]
            /\ pc' = [pc EXCEPT ![p] = "idle"]
            /\ conf' = [conf EXCEPT ![p] = NoConf]
            /\ resp' = [resp EXCEPT ![p] = Resp("migrate", "error", c.version)]
            /\ UNCHANGED db
         \/ /\ CanWrite(p)
            /\ IF c.statement = Len(MIGRATIONS[c.version]) + 1
               THEN \* INSERT INTO schema_version and conn.commit(), lines 661-665
                    /\ db' = [view EXCEPT !.schema_version = @ \cup {c.version}]
                    /\ tx' = [tx EXCEPT ![p] = NoTx]
               ELSE LET made == [view EXCEPT !.schema = @ \cup {<<c.version, c.statement>>}]
                    IN  IF /\ db.backend = "sqlite" /\ tx[p] = NoTx
                           /\ MIGRATIONS[c.version][c.statement] = "ddl"
                        THEN \* sqlite3 opens no transaction for a schema statement: it is
                             \* committed as it is executed
                             /\ db' = made
                             /\ UNCHANGED tx
                        ELSE /\ tx' = [tx EXCEPT ![p] = made]
                             /\ UNCHANGED db
            /\ conf' = [conf EXCEPT ![p] = [c EXCEPT !.statement = @ + 1]]
            /\ UNCHANGED <<pc, resp>>
    /\ UNCHANGED <<now, edit, learn, used>>

NextMigrate ==
    \E p \in Procs :
      \/ apply_migrations(p)
      \/ _run_migrations(p)

SpecMigrate == InitMigrate /\ [][NextMigrate]_vars

\* p enters a migration
MigrationEntered(p) ==
    pc[p] = "run_migrations" /\ pc'[p] = "run_migrations" /\ conf'[p].version # conf[p].version

\* a migration of p fails
MigrationFailed(p) ==
    pc[p] = "run_migrations" /\ resp'[p] = Resp("migrate", "error", conf[p].version)

\* each migration version is applied at most once and in ascending order
AppliedOnceAscending ==
    \A p \in Procs :
      MigrationEntered(p)
      => /\ conf'[p].version \notin db.schema_version
         /\ \A i \in DOMAIN conf[p].started : conf[p].started[i] < conf'[p].version

\* a version is recorded only after its migration succeeded
RecordedAfterSuccess ==
    \A v \in db'.schema_version \ db.schema_version :
      /\ db'.schema_version = db.schema_version \cup {v}
      /\ \A i \in DOMAIN MIGRATIONS[v] : <<v, i>> \in db'.schema
      /\ \E p \in Procs : pc[p] = "run_migrations" /\ conf[p].version = v

\* a failing migration is rolled back, not recorded, and stops the run
FailureRolledBack ==
    \A p \in Procs :
      MigrationFailed(p)
      => /\ db'.schema = conf[p].before
         /\ db'.schema_version = db.schema_version
         /\ conf[p].version \notin db'.schema_version
         /\ pc'[p] = "idle" /\ tx'[p] = NoTx

\* a run on an up-to-date database applies no migration and leaves the health check ok
Idempotent ==
    \A p \in Procs :
      (pc[p] = "run_migrations" /\ conf[p].applied_versions = DOMAIN MIGRATIONS)
      => /\ db' = db /\ conf'[p] = NoConf /\ conf[p].started = <<>>
         /\ inspect_db_health(db).ok => (inspect_db_health(db').ok /\ resp'[p] = Resp("migrate", "ok", 0))

\* C30: apply_migrations applies each migration version at most once and in ascending version
\* order, records a version in schema_version only after that migration succeeded (a failing
\* migration is rolled back, not recorded, and stops the run), and is idempotent: a run on an
\* up-to-date database applies no migration and the schema health check stays ok.
C30_MigrationsOnceInOrder ==
    [][AppliedOnceAscending /\ RecordedAfterSuccess /\ FailureRolledBack /\ Idempotent]_vars
====
